---- MODULE Spec2Model ----
(***************************************************************************)
(* Model of html-content-processor: the citation rewriter                 *)
(* (DefaultMarkdownGenerator.convertLinksToRefs, fastUrlJoin), the content *)
(* filter (HtmlFilter) and the fluent HtmlProcessor built on it.           *)
(*                                                                         *)
(* Markdown, URLs and HTML text are TLA+ strings; positions are 1-based.   *)
(* The citation marker glyphs U+27E8 / U+27E9 are written "<" and ">",     *)
(* which never occur in the markdown inputs.                               *)
(***************************************************************************)
EXTENDS Integers, Sequences, FiniteSets, TLC

VARIABLES
    markdown,      \* argument of convertLinksToRefs
    baseUrl,       \* argument of convertLinksToRefs
    lastIndex,     \* LINK_PATTERN.lastIndex (module-level /g regex state)
    citePc,        \* "ready" | "done" ("off" while the filter is exercised)
    citeOut,       \* what convertLinksToRefs returned (and its local maps)
    urlBase,       \* the base URL given to a URL resolver
    urlArg,        \* the candidate URL given to a URL resolver
    urlPc,         \* "ready" | "done" ("off" while no resolver is exercised)
    urlOut,        \* which resolver was called and what it returned
    api,           \* "filterContent" (HtmlFilter used directly) | "processor"
    options,       \* HtmlProcessor.options.filter
    cfg,           \* the HtmlFilter instance: minWordCount, thresholdType, threshold
    html,          \* argument of filterContent
    dom,           \* the parsed document
    stack,         \* pruneTree activations: node, children snapshot, loop index
    pc,            \* position of the filter call
    fragments,     \* contentBlocks returned by filterContent
    pass,          \* 1 for the first filtering, 2 for the filtering of its output
    firstOut,      \* contentBlocks of the first filtering
    log,           \* the nodes pruneTree detached in this pass, in order
    scored,        \* what pruneTree computed for each node it scored in this pass
    currentHtml,   \* HtmlProcessor.currentHtml
    processed,     \* HtmlProcessor.processed
    build,         \* which CustomHtml2Text is linked: handle returns a string or a promise
    citations,     \* argument of generateMarkdown
    fault,         \* the failure this run may meet: "none" | "filter" | "serializer" | "citations"
    parseCalls,    \* how often parseFromString / parseHTML has been called
    calls,         \* how often filterContent has been called since filter() was entered
    thrown,        \* the error the call failed with
    mdOut,         \* what handle or generateMarkdown returned
    history,       \* how the calls made so far on the instance ended, oldest first
    environment,   \* DOMAdapter._environment: "browser" | "node" | "unknown"
    jsdomInstalled, \* whether import('jsdom') succeeds in this environment
    window,        \* DOMAdapter._window: 0 for null, else the number of the window object
    initialized,   \* DOMAdapter._initialized
    jsdomAvailable, \* NodeAdapter.jsdomAvailable: "null" | "true" | "false"
    created,       \* how many window objects createWindow has made
    callers,       \* the calls in progress on the adapter: function, position, locals
    pageTypeResult, \* HtmlProcessor.pageTypeResult.filterOptions (no key while null)
    filterArg,     \* the options argument of the filter() call in progress
    plugins,       \* PluginRegistry.plugins: the plugin registered under each name
    initializationOrder, \* PluginRegistry.initializationOrder
    pluginOut      \* how the last call on the registry ended

citeVars == <<markdown, baseUrl, lastIndex, citePc, citeOut>>

urlVars == <<urlBase, urlArg, urlPc, urlOut>>

\* the filter's variables except the position of the call
filterData ==
    <<api, options, cfg, html, dom, stack, fragments, pass, firstOut, log, scored,
      currentHtml, processed>>

filterVars == <<filterData, pc>>

runVars == <<build, citations, fault, parseCalls, calls, thrown, mdOut, history>>

adapterVars == <<environment, jsdomInstalled, window, initialized, jsdomAvailable, created, callers>>

\* the variables of the components the calls above do not touch
procVars == <<pageTypeResult, filterArg>>

pluginVars == <<plugins, initializationOrder, pluginOut>>

sideVars == <<adapterVars, procVars, pluginVars>>

coreVars == <<citeVars, urlVars, filterVars, runVars>>

vars == <<coreVars, sideVars>>

-----------------------------------------------------------------------------
(* Bounds *)

MaxSegs == 3

MaxBlocks == 2

\* calls made on one instance
MaxCalls == 3

\* concurrent calls on the DOM adapter
MaxCallers == 2

\* operations called on one HtmlProcessor
MaxOps == 2

\* how many calls are made on one plugin registry
MaxPluginOps == 3

-----------------------------------------------------------------------------
(* String helpers (String.prototype methods used by the code) *)

CharAt(s, i) == IF i >= 1 /\ i <= Len(s) THEN SubSeq(s, i, i) ELSE ""

StartsWith(s, p) == Len(s) >= Len(p) /\ SubSeq(s, 1, Len(p)) = p

EndsWith(s, p) == Len(s) >= Len(p) /\ SubSeq(s, Len(s) - Len(p) + 1, Len(s)) = p

\* s.slice(i-1): the rest of s from 1-based position i
SliceFrom(s, i) == SubSeq(s, i, Len(s))

IsSpace(c) == c = " " \/ c = "\n"

RECURSIVE TrimStart(_)
TrimStart(s) == IF Len(s) > 0 /\ IsSpace(CharAt(s, 1)) THEN TrimStart(SliceFrom(s, 2)) ELSE s

RECURSIVE TrimEnd(_)
TrimEnd(s) ==
    IF Len(s) > 0 /\ IsSpace(CharAt(s, Len(s))) THEN TrimEnd(SubSeq(s, 1, Len(s) - 1)) ELSE s

Trim(s) == TrimEnd(TrimStart(s))

\* least j >= i with s[j] = c, or 0
IndexOfFrom(s, c, i) ==
    LET J == {j \in i..Len(s) : CharAt(s, j) = c}
    IN  IF J = {} THEN 0 ELSE CHOOSE j \in J : \A k \in J : j <= k

\* greatest j with s[j] = c, or 0
LastIndexOf(s, c) ==
    LET J == {j \in 1..Len(s) : CharAt(s, j) = c}
    IN  IF J = {} THEN 0 ELSE CHOOSE j \in J : \A k \in J : j >= k

Contains(s, sub) ==
    \E i \in 1..(Len(s) - Len(sub) + 1) : SubSeq(s, i, i + Len(sub) - 1) = sub

RECURSIVE JoinStr(_, _)
JoinStr(parts, sep) ==
    IF Len(parts) = 0 THEN ""
    ELSE IF Len(parts) = 1 THEN parts[1]
    ELSE parts[1] \o sep \o JoinStr(Tail(parts), sep)

\* s.split(sep) for a one-character separator
RECURSIVE SplitStr(_, _)
SplitStr(s, sep) ==
    LET j == IndexOfFrom(s, sep, 1)
    IN  IF j = 0 THEN <<s>>
        ELSE <<SubSeq(s, 1, j - 1)>> \o SplitStr(SliceFrom(s, j + 1), sep)

-----------------------------------------------------------------------------
(* new URL(...) for http(s) URLs with a path and no query or fragment *)

\* new URL(base) succeeds
UrlValid(u) ==
    \/ StartsWith(u, "http://") /\ Len(u) > 7 /\ CharAt(u, 8) # "/"
    \/ StartsWith(u, "https://") /\ Len(u) > 8 /\ CharAt(u, 9) # "/"

UrlProtocol(u) == SubSeq(u, 1, IndexOfFrom(u, ":", 1))

UrlAfterScheme(u) == SliceFrom(u, IndexOfFrom(u, ":", 1) + 3)

UrlHost(u) ==
    LET r == UrlAfterScheme(u)
        j == IndexOfFrom(r, "/", 1)
    IN  IF j = 0 THEN r ELSE SubSeq(r, 1, j - 1)

UrlPath(u) ==
    LET r == UrlAfterScheme(u)
        j == IndexOfFrom(r, "/", 1)
    IN  IF j = 0 THEN "/" ELSE SliceFrom(r, j)

\* remove_dot_segments over the segments of a path
RECURSIVE DotFold(_, _)
DotFold(segs, acc) ==
    IF Len(segs) = 0 THEN acc
    ELSE LET s == Head(segs)
             last == Len(segs) = 1
         IN  IF s = "." THEN DotFold(Tail(segs), IF last THEN acc \o <<"">> ELSE acc)
             ELSE IF s = ".."
                  THEN LET popped == IF Len(acc) > 0 THEN SubSeq(acc, 1, Len(acc) - 1) ELSE acc
                       IN  DotFold(Tail(segs), IF last THEN popped \o <<"">> ELSE popped)
                  ELSE DotFold(Tail(segs), acc \o <<s>>)

RemoveDotSegments(path) == "/" \o JoinStr(DotFold(SplitStr(SliceFrom(path, 2), "/"), <<>>), "/")

\* new URL(url, base).href for a relative path reference url and a valid base
UrlResolveHref(url, base) ==
    LET path == UrlPath(base)
        dir  == SubSeq(path, 1, LastIndexOf(path, "/"))
    IN  UrlProtocol(base) \o "//" \o UrlHost(base) \o RemoveDotSegments(dir \o url)

IsAbsoluteScheme(url) ==
    \/ StartsWith(url, "http://") \/ StartsWith(url, "https://")
    \/ StartsWith(url, "mailto:") \/ StartsWith(url, "data:")

fastUrlJoin(base, url) ==
    IF IsAbsoluteScheme(url) \/ StartsWith(url, "//") THEN url
    ELSE IF StartsWith(url, "/")
         THEN IF base # ""
              THEN IF UrlValid(base)
                   THEN UrlProtocol(base) \o "//" \o UrlHost(base) \o url
                   ELSE IF EndsWith(base, "/")
                        THEN SubSeq(base, 1, Len(base) - 1) \o url
                        ELSE base \o url
              ELSE url
         ELSE IF base # ""
              THEN IF UrlValid(base) THEN UrlResolveHref(url, base) ELSE url
              ELSE url

\* url starts with a scheme: a letter, then letters up to a colon
HasScheme(url) ==
    /\ IndexOfFrom(url, ":", 1) > 1
    /\ \A i \in 1..(IndexOfFrom(url, ":", 1) - 1) :
           \E l \in {"a", "b", "c", "d", "e", "f", "g", "h", "i", "j", "k", "l", "m", "n", "o",
                      "p", "q", "r", "s", "t", "u", "v", "w", "x", "y", "z"} : CharAt(url, i) = l

\* new URL(url, base).href, for a url that is an absolute URL in serialised
\* form, a protocol-relative or root-relative reference or a relative path;
\* ok is false where the constructor throws
NewUrl(url, base) ==
    IF HasScheme(url) THEN [ok |-> TRUE, href |-> url]
    ELSE IF ~UrlValid(base) THEN [ok |-> FALSE, href |-> ""]
    ELSE IF StartsWith(url, "//") THEN [ok |-> TRUE, href |-> UrlProtocol(base) \o url]
    ELSE IF StartsWith(url, "/")
         THEN [ok |-> TRUE,
               href |-> UrlProtocol(base) \o "//" \o UrlHost(base) \o RemoveDotSegments(url)]
         ELSE [ok |-> TRUE, href |-> UrlResolveHref(url, base)]

\* a resolver that joins on every failure
resolveUrlJoining(base, url) ==
    IF base = "" \/ StartsWith(url, "http") \/ StartsWith(url, "//") \/ StartsWith(url, "data:")
    THEN url
    ELSE IF NewUrl(url, base).ok THEN NewUrl(url, base).href ELSE base \o url

\* CustomHtml2Text.resolveUrl (html2text.ts lines 311-321), base being this.baseUrl
resolveUrl(base, url) ==
    IF base = "" \/ StartsWith(url, "http") \/ StartsWith(url, "//") \/ StartsWith(url, "data:")
    THEN url
    ELSE IF NewUrl(url, base).ok THEN NewUrl(url, base).href ELSE url

-----------------------------------------------------------------------------
(* LINK_PATTERN (markdown-generator.ts line 11): optional bang, bracketed   *)
(* text of one or more non-bracket characters, then in parentheses a lazy  *)
(* url of non-parenthesis characters and an optional double-quoted title   *)
(* after whitespace; global flag, so exec resumes at lastIndex.            *)

NoMatch == [found |-> FALSE]

\* the optional title group followed by the closing parenthesis, tried at position t
TitleAt(md, t) ==
    LET NS == {j \in t..Len(md) : ~IsSpace(CharAt(md, j))}
        t2 == IF NS = {} THEN 0 ELSE CHOOSE j \in NS : \A k \in NS : j <= k
        t3 == IF t2 = 0 THEN 0 ELSE IndexOfFrom(md, "\"", t2 + 1)
    IN  IF /\ IsSpace(CharAt(md, t)) /\ t2 > 0 /\ CharAt(md, t2) = "\""
           /\ t3 > 0 /\ CharAt(md, t3 + 1) = ")"
        THEN [ok |-> TRUE, title |-> SubSeq(md, t2 + 1, t3 - 1), close |-> t3 + 1]
        ELSE [ok |-> FALSE]

\* the pattern anchored at position s
MatchAt(md, s) ==
    LET p == IF CharAt(md, s) = "!" THEN s + 1 ELSE s
        q == IndexOfFrom(md, "]", p + 1)
        r == IndexOfFrom(md, ")", q + 2)
        \* lazy url: the shortest url end e after which the rest of the pattern matches
        E == {e \in (q + 2)..(r - 1) : TitleAt(md, e + 1).ok \/ e + 1 = r}
        e == CHOOSE x \in E : \A y \in E : x <= y
        t == TitleAt(md, e + 1)
    IN  IF CharAt(md, p) # "[" \/ q = 0 \/ q = p + 1 THEN NoMatch
        ELSE IF CharAt(md, q + 1) # "(" \/ r = 0 \/ E = {} THEN NoMatch
        ELSE [found    |-> TRUE,
              index    |-> s,
              stop     |-> IF t.ok THEN t.close ELSE r,
              image    |-> p # s,
              text     |-> SubSeq(md, p + 1, q - 1),
              url      |-> SubSeq(md, q + 2, e),
              hasTitle |-> t.ok,
              title    |-> IF t.ok THEN t.title ELSE ""]

\* LINK_PATTERN.exec(md) with the search starting at 1-based position from
RECURSIVE LinkPatternExec(_, _)
LinkPatternExec(md, from) ==
    IF from > Len(md) THEN NoMatch
    ELSE LET m == MatchAt(md, from)
         IN  IF m.found THEN m ELSE LinkPatternExec(md, from + 1)

-----------------------------------------------------------------------------
(* DefaultMarkdownGenerator.convertLinksToRefs *)

Marker(n) == "<" \o ToString(n) \o ">"

\* Map.has / Map.get on a map kept as a sequence of entries in insertion order
MapHas(m, k) == \E i \in 1..Len(m) : m[i].key = k

MapGet(m, k) == m[CHOOSE i \in 1..Len(m) : m[i].key = k]

\* the resolved URL of one match (lines 98-104), with the cache after the lookup
ResolveMatch(base, url, cache) ==
    IF base # "" /\ ~IsAbsoluteScheme(url)
    THEN LET c2  == IF MapHas(cache, url) THEN cache
                    ELSE Append(cache, [key |-> url, val |-> fastUrlJoin(base, url)])
             got == MapGet(c2, url).val
         IN  [resolved |-> IF got # "" THEN got ELSE url, cache |-> c2]
    ELSE [resolved |-> url, cache |-> cache]

\* the description of a new linkMap entry (lines 107-112)
Description(m) ==
    LET d1 == IF m.hasTitle /\ m.title # "" THEN <<m.title>> ELSE <<>>
        d2 == IF m.text # "" /\ Trim(m.text) # "" /\ ~(m.hasTitle /\ m.text = m.title)
              THEN <<Trim(m.text)>> ELSE <<>>
        ds == d1 \o d2
    IN  IF Len(ds) > 0 THEN ": " \o JoinStr(ds, " - ") ELSE ""

\* deduplication by the raw URL text instead of the resolved URL
LinkKeyRaw(resolved, raw) == raw

\* the key under which a match is looked up and stored in linkMap
LinkKey(resolved, raw) == resolved

\* a counter that advances on every match
NextCounterAlways(counter, isNew) == counter + 1

\* the counter after a match (line 113: incremented only for a new entry)
NextCounter(counter, isNew) == IF isNew THEN counter + 1 ELSE counter

\* a replacement that renders images like links
ReplacementImageAsLink(m, resolved, refNum) ==
    (IF Trim(m.text) # "" THEN Trim(m.text) ELSE resolved) \o Marker(refNum)

\* the replacement pushed for one match (lines 119-124)
Replacement(m, resolved, refNum) ==
    LET refText == IF Trim(m.text) # "" THEN Trim(m.text) ELSE resolved
    IN  IF ~m.image THEN refText \o Marker(refNum)
        ELSE "![" \o refText \o Marker(refNum) \o "]"

\* linkMap after a match: a new entry when the key is not yet present
\* (lines 106-114)
LinkMapAfter(linkMap, key, counter, m) ==
    IF MapHas(linkMap, key) THEN linkMap
    ELSE Append(linkMap, [key |-> key, refNum |-> counter, description |-> Description(m)])

\* the loop's local state after the body ran for match m with resolution rm
\* and linkMap lm2 (lines 95-127)
LoopBody(md, st, m, rm, lm2) ==
    [lastIndex |-> m.stop,
     lastEnd   |-> m.stop + 1,
     counter   |-> NextCounter(st.counter, Len(lm2) > Len(st.linkMap)),
     linkMap   |-> lm2,
     urlCache  |-> rm.cache,
     parts     |-> st.parts \o SubSeq(md, st.lastEnd, m.index - 1)
                     \o Replacement(m, rm.resolved, MapGet(lm2, LinkKey(rm.resolved, m.url)).refNum),
     ids       |-> Append(st.ids, MapGet(lm2, LinkKey(rm.resolved, m.url)).refNum)]

LoopResolved(md, st, m, rm) ==
    LoopBody(md, st, m, rm, LinkMapAfter(st.linkMap, LinkKey(rm.resolved, m.url), st.counter, m))

LoopMatched(md, base, st, m) == LoopResolved(md, st, m, ResolveMatch(base, m.url, st.urlCache))

\* the while loop of lines 94-128; st is the loop's local state
RECURSIVE RefsLoop(_, _, _, _)
RECURSIVE RefsLoopNext(_, _, _)
RefsLoopNext(md, base, st) == RefsLoop(md, base, st, LinkPatternExec(md, st.lastIndex + 1))

RefsLoop(md, base, st, m) ==
    IF ~m.found THEN [st EXCEPT !.lastIndex = 0]
    ELSE RefsLoopNext(md, base, LoopMatched(md, base, st, m))

\* entries sorted by refNum (line 139)
RECURSIVE SortByRefNum(_)
SortByRefNum(m) ==
    IF Len(m) = 0 THEN <<>>
    ELSE LET i == CHOOSE x \in 1..Len(m) : \A y \in 1..Len(m) : m[x].refNum <= m[y].refNum
         IN  <<m[i]>> \o SortByRefNum(SubSeq(m, 1, i - 1) \o SubSeq(m, i + 1, Len(m)))

RECURSIVE RefLines(_)
RefLines(entries) ==
    IF Len(entries) = 0 THEN ""
    ELSE Marker(entries[1].refNum) \o " " \o entries[1].key \o entries[1].description
           \o "\n" \o RefLines(Tail(entries))

ReferencesHeader == "\n\n## References\n\n"

\* a references block that always carries the heading
ReferencesBlockAlways(linkMap) == ReferencesHeader \o RefLines(SortByRefNum(linkMap))

\* lines 133-145: no section when linkMap is empty
ReferencesBlock(linkMap) ==
    IF Len(linkMap) = 0 THEN ""
    ELSE ReferencesHeader \o RefLines(SortByRefNum(linkMap))

convertLinksToRefs(md, base, startIndex) ==
    LET st == RefsLoopNext(md, base,
                 [lastIndex |-> startIndex, lastEnd |-> 1, counter |-> 1,
                  linkMap |-> <<>>, urlCache |-> <<>>, parts |-> "", ids |-> <<>>])
        convertedText == st.parts \o SliceFrom(md, st.lastEnd)
    IN  [text      |-> convertedText,
         refs      |-> ReferencesBlock(st.linkMap),
         ids       |-> st.ids,
         linkMap   |-> st.linkMap,
         lastIndex |-> st.lastIndex]

\* a partial FilterOptions object with no key
NoLayer == [keys |-> {}, threshold |-> 0, strategy |-> "", ratio |-> 0, minWords |-> 0]

\* what HtmlProcessor.from is given in the runs of processor operations
ProcGiven ==
    { [preset |-> "", keys |-> {}, threshold |-> 0, strategy |-> "", ratio |-> 0, minWords |-> 0],
      [preset |-> "news", keys |-> {"ratio"}, threshold |-> 0, strategy |-> "", ratio |-> 400, minWords |-> 0],
      [preset |-> "", keys |-> {"threshold", "minWords"},
       threshold |-> 5, strategy |-> "", ratio |-> 0, minWords |-> 7] }

\* the filter options given to withOptions and to filter
CallLayers ==
    { NoLayer,
      [keys |-> {"threshold"}, threshold |-> 9, strategy |-> "", ratio |-> 0, minWords |-> 0],
      [keys |-> {"minWords"}, threshold |-> 0, strategy |-> "", ratio |-> 0, minWords |-> 3] }

\* filterOptions of a detection result (page-type-detector.ts): type 'news'
\* (lines 357-366) and type 'unknown' (lines 629-635)
Detections ==
    { [keys |-> {"threshold", "strategy", "ratio", "minWords"},
       threshold |-> 4, strategy |-> "dynamic", ratio |-> 350, minWords |-> 10],
      [keys |-> {"threshold", "strategy", "ratio", "minWords"},
       threshold |-> 2, strategy |-> "dynamic", ratio |-> 480, minWords |-> 2] }

\* a baseUrl argument that is not a string: the object {}, written as the
\* string it converts to.  It is truthy, new URL rejects it, and it has no
\* method endsWith
ObjectBase == "[object Object]"

\* the TypeError of baseUrl.endsWith(...) in the catch block of fastUrlJoin
\* (line 37) when baseUrl is not a string
EndsWithError ==
    [name |-> "TypeError", code |-> "", message |-> "baseUrl.endsWith is not a function", cause |-> <<>>]

\* the first match at or after position from at which the loop body throws:
\* base is not a string and the url is root-relative, so that line 100 calls
\* fastUrlJoin, new URL(baseUrl) throws and the catch block calls endsWith
RECURSIVE ThrowingMatchFrom(_, _)
ThrowingMatchFrom(md, m) ==
    IF ~m.found THEN NoMatch
    ELSE IF StartsWith(m.url, "/") /\ ~StartsWith(m.url, "//") THEN m
    ELSE ThrowingMatchFrom(md, LinkPatternExec(md, m.stop + 1))

ThrowingMatch(md, base, from) ==
    IF base # ObjectBase THEN NoMatch ELSE ThrowingMatchFrom(md, LinkPatternExec(md, from))

-----------------------------------------------------------------------------
(* Inputs of the citation rewriter *)

Segments ==
    { "x ", "[a](u)", "[b](./u)", "![i](/d/u)", "[a](http://h/d/u)",
      "[ ](v)", "[c](//h/v \"t\")", "[a]" }

BaseUrls == { "", "http://h/d/", "nobase" }

\* markdowns made of up to MaxSegs segments
SegSeqs == UNION { [1..n -> Segments] : n \in 0..MaxSegs }

Markdowns == { JoinStr(s, "") : s \in SegSeqs }

\* base URLs: none, two valid ones, and two that new URL() rejects
UrlBases == {"", "http://h/d/", "https://k/x/y", "nobase", "nodir/"}

\* candidate URLs: absolute, protocol-relative, root-relative and relative
UrlCandidates ==
    { "http://x/p", "https://x/p", "mailto:m", "data:d", "//c/p",
      "/r/u", "/", "a", "a/b", "../u", "./v", "httpdocs/a" }

\* markdowns and base URLs of the calls made on one generator
ReuseMarkdowns == { "[a](/x) [b](y)", "x [b](y)", "[c](y \"t\") [a](/x)" }

ReuseBases == { "http://h/d/", ObjectBase }

NoUrlOut == [fn |-> "", value |-> ""]

NoCiteOut == [text |-> "", refs |-> "", ids |-> <<>>, linkMap |-> <<>>, lastIndex |-> 0]

------------------------------------------------------------------------------
(* The document: DOMParser.parseFromString(html, 'text/html') and the DOM    *)
(* operations the filter uses.  A document is an arena: a sequence of nodes  *)
(* addressed by index, node 1 being body.  Ids follow source order.          *)

Body == 1
HtmlElement == 0     \* body's parentNode, the html element (not the document)
NoParent == -1       \* parentNode of a detached node (null)

BodyNode ==
    [kind |-> "elem", tag |-> "body", attrs |-> "", text |-> "", parent |-> HtmlElement, kids |-> <<>>]

\* least j >= i where sub occurs in s, or 0
IndexOfStr(s, sub, i) ==
    LET J == {j \in i..(Len(s) - Len(sub) + 1) : SubSeq(s, j, j + Len(sub) - 1) = sub}
    IN  IF J = {} THEN 0 ELSE CHOOSE j \in J : \A k \in J : j <= k

\* the value of attribute name in the attribute text of a start tag, "" if absent
AttrValue(attrs, name) ==
    LET at == IndexOfStr(attrs, " " \o name \o "=\"", 1)
    IN  IF at = 0 THEN ""
        ELSE SubSeq(attrs, at + Len(name) + 3,
                    IndexOfFrom(attrs, "\"", at + Len(name) + 3) - 1)

\* appendChild of a new node under parent
AddNode(nodes, parent, node) ==
    Append([nodes EXCEPT ![parent].kids = Append(@, Len(nodes) + 1)],
           [node EXCEPT !.parent = parent])

\* start tags that close an open p element (HTML tree construction)
ClosesP == {"p", "div", "article", "section", "nav", "footer", "header", "aside", "ul", "ol"}

\* the stack of open elements after popping up to and including the nearest
\* element with the given tag; unchanged when there is none
PopTo(nodes, open, tag) ==
    LET J == {j \in 2..Len(open) : nodes[open[j]].tag = tag}
    IN  IF J = {} THEN open
        ELSE SubSeq(open, 1, (CHOOSE j \in J : \A k \in J : j >= k) - 1)

TagNameOf(inside) ==
    IF IndexOfFrom(inside, " ", 1) = 0 THEN inside
    ELSE SubSeq(inside, 1, IndexOfFrom(inside, " ", 1) - 1)

TagAttrsOf(inside) ==
    IF IndexOfFrom(inside, " ", 1) = 0 THEN ""
    ELSE SliceFrom(inside, IndexOfFrom(inside, " ", 1))

ElemNode(inside) ==
    [kind |-> "elem", tag |-> TagNameOf(inside), attrs |-> TagAttrsOf(inside),
     text |-> "", parent |-> NoParent, kids |-> <<>>]

TextNode(t) ==
    [kind |-> "text", tag |-> "", attrs |-> "", text |-> t, parent |-> NoParent, kids |-> <<>>]

CommentNode(t) ==
    [kind |-> "comment", tag |-> "", attrs |-> "", text |-> t, parent |-> NoParent, kids |-> <<>>]

\* elements without content or end tag
VoidTags == {"br", "hr", "img"}

RECURSIVE ParseFrom(_, _, _, _)
RECURSIVE ParseOpen(_, _, _, _, _)

\* a start tag whose inside (name and attributes) is given; gt is the position
\* of ">".  A void element is not left open; a tr directly in a table gets
\* the implied tbody.
ParseOpen(s, gt, nodes, open, inside) ==
    IF TagNameOf(inside) \in VoidTags
    THEN ParseFrom(s, gt + 1, AddNode(nodes, open[Len(open)], ElemNode(inside)), open)
    ELSE IF TagNameOf(inside) = "tr" /\ nodes[open[Len(open)]].tag = "table"
    THEN ParseOpen(s, gt, AddNode(nodes, open[Len(open)], ElemNode("tbody")),
                   Append(open, Len(nodes) + 1), inside)
    ELSE ParseFrom(s, gt + 1,
                   AddNode(nodes, open[Len(open)], ElemNode(inside)),
                   Append(open, Len(nodes) + 1))

\* the tokens from position pos on, inserted under the current node open[Len(open)]
ParseFrom(s, pos, nodes, open) ==
    IF pos > Len(s) \/ Len(nodes) = 0 \/ Len(open) = 0 THEN nodes
    ELSE IF CharAt(s, pos) # "<"
    THEN \* character data up to the next tag
         IF IndexOfFrom(s, "<", pos) = 0
         THEN AddNode(nodes, open[Len(open)], TextNode(SliceFrom(s, pos)))
         ELSE ParseFrom(s, IndexOfFrom(s, "<", pos),
                        AddNode(nodes, open[Len(open)],
                                TextNode(SubSeq(s, pos, IndexOfFrom(s, "<", pos) - 1))),
                        open)
    ELSE IF SubSeq(s, pos, pos + 3) = "<!--"
    THEN ParseFrom(s, IndexOfStr(s, "-->", pos + 4) + 3,
                   AddNode(nodes, open[Len(open)],
                           CommentNode(SubSeq(s, pos + 4, IndexOfStr(s, "-->", pos + 4) - 1))),
                   open)
    ELSE IF CharAt(s, pos + 1) = "/"
    THEN \* end tag: close the nearest open element of that name
         ParseFrom(s, IndexOfFrom(s, ">", pos) + 1, nodes,
                   PopTo(nodes, open, SubSeq(s, pos + 2, IndexOfFrom(s, ">", pos) - 1)))
    ELSE \* start tag; a block-level start tag closes an open p
         ParseOpen(s, IndexOfFrom(s, ">", pos), nodes,
                   IF TagNameOf(SubSeq(s, pos + 1, IndexOfFrom(s, ">", pos) - 1)) \in ClosesP
                   THEN PopTo(nodes, open, "p") ELSE open,
                   SubSeq(s, pos + 1, IndexOfFrom(s, ">", pos) - 1))

\* parser.parseFromString(html, 'text/html'): the body of the document
ParseHtml(source) == ParseFrom(source, 1, <<BodyNode>>, <<Body>>)

\* element children (node.children)
ElemKids(nodes, n) == SelectSeq(nodes[n].kids, LAMBDA k : nodes[k].kind = "elem")

\* node.textContent
RECURSIVE TextContent(_, _)
RECURSIVE TextOfKids(_, _)
TextOfKids(nodes, ks) ==
    IF Len(ks) = 0 THEN "" ELSE TextContent(nodes, Head(ks)) \o TextOfKids(nodes, Tail(ks))

TextContent(nodes, n) ==
    IF nodes[n].kind = "text" THEN nodes[n].text
    ELSE IF nodes[n].kind = "comment" THEN ""
    ELSE TextOfKids(nodes, nodes[n].kids)

\* node.outerHTML / node.innerHTML (the HTML fragment serialisation)
RECURSIVE OuterHTML(_, _)
RECURSIVE HtmlOfKids(_, _)
HtmlOfKids(nodes, ks) ==
    IF Len(ks) = 0 THEN "" ELSE OuterHTML(nodes, Head(ks)) \o HtmlOfKids(nodes, Tail(ks))

\* a serialiser that puts a line break after every end tag
OuterHTMLWithBreaks(nodes, n) ==
    IF nodes[n].kind = "text" THEN nodes[n].text
    ELSE IF nodes[n].kind = "comment" THEN "<!--" \o nodes[n].text \o "-->"
    ELSE "<" \o nodes[n].tag \o nodes[n].attrs \o ">" \o HtmlOfKids(nodes, nodes[n].kids)
           \o "</" \o nodes[n].tag \o ">\n"

OuterHTML(nodes, n) ==
    IF nodes[n].kind = "text" THEN nodes[n].text
    ELSE IF nodes[n].kind = "comment" THEN "<!--" \o nodes[n].text \o "-->"
    ELSE "<" \o nodes[n].tag \o nodes[n].attrs \o ">" \o HtmlOfKids(nodes, nodes[n].kids)
           \o "</" \o nodes[n].tag \o ">"

InnerHTML(nodes, n) == HtmlOfKids(nodes, nodes[n].kids)

\* parent.removeChild(n)
RemoveAt(ks, n) == SelectSeq(ks, LAMBDA k : k # n)

Detach(nodes, n) ==
    IF nodes[n].parent \in 1..Len(nodes)
    THEN [nodes EXCEPT ![n].parent = NoParent, ![nodes[n].parent].kids = RemoveAt(@, n)]
    ELSE [nodes EXCEPT ![n].parent = NoParent]

\* the descendants of n (n included), in document order
RECURSIVE Subtree(_, _)
RECURSIVE SubtreeOfKids(_, _)
SubtreeOfKids(nodes, ks) ==
    IF Len(ks) = 0 THEN <<>> ELSE Subtree(nodes, Head(ks)) \o SubtreeOfKids(nodes, Tail(ks))

Subtree(nodes, n) == <<n>> \o SubtreeOfKids(nodes, nodes[n].kids)

-----------------------------------------------------------------------------
(* HtmlFilter: configuration tables (constructor, html-filter.ts 43-119).    *)
(* Scores are exact rationals: weights are in tenths, tag weights in tenths, *)
(* thresholds in thousandths.                                                *)

IncludedTags ==
    { "article", "main", "section", "div", "ul", "ol", "li", "dl", "dt", "dd",
      "p", "span", "blockquote", "pre", "code", "h1", "h2", "h3", "h4", "h5", "h6",
      "table", "thead", "tbody", "tr", "td", "th", "figure", "figcaption", "details",
      "summary", "em", "strong", "b", "i", "mark", "small", "time", "address", "cite", "q" }

ExcludedTags == <<"nav", "footer", "header", "aside", "script", "style", "form", "iframe", "noscript">>

NegativeWords ==
    { "nav", "footer", "header", "sidebar", "ads", "comment", "promo", "advert", "social", "share" }

\* this.tagImportance, in tenths; 0.7 when absent (line 237)
TagImportance10(tag) ==
    CASE tag = "article" -> 15 [] tag = "main" -> 14 [] tag = "section" -> 13
      [] tag = "p" -> 12 [] tag = "h1" -> 14 [] tag = "h2" -> 13 [] tag = "h3" -> 12
      [] tag = "div" -> 7 [] tag = "span" -> 6 [] OTHER -> 7

\* this.tagWeights, in tenths; 0.5 when absent (line 311)
TagWeight10(tag) ==
    CASE tag = "div" -> 5 [] tag = "p" -> 10 [] tag = "article" -> 15 [] tag = "section" -> 10
      [] tag = "span" -> 3 [] tag \in {"li", "ul", "ol"} -> 5
      [] tag = "h1" -> 12 [] tag = "h2" -> 11 [] tag = "h3" -> 10
      [] tag = "h4" -> 9 [] tag = "h5" -> 8 [] tag = "h6" -> 7 [] OTHER -> 5

\* this.metricWeights, in tenths
WTextDensity == 4
WLinkDensity == 2
WTagWeight == 2
WClassId == 1
WTextLength == 1

TotalWeight == WTextDensity + WLinkDensity + WTagWeight + WClassId + WTextLength

\* new HtmlFilter(minWordThreshold, thresholdType, threshold); threshold in thousandths
NewHtmlFilter(minWordThreshold, thresholdType, threshold) ==
    [minWordCount  |-> IF minWordThreshold # 0 THEN minWordThreshold ELSE 2,
     thresholdType |-> thresholdType,
     threshold     |-> threshold]

DefaultThreshold == 480

DefaultFilter == NewHtmlFilter(0, "fixed", DefaultThreshold)

-----------------------------------------------------------------------------
(* HtmlFilter: removeComments, removeUnwantedTags *)

\* removeChild for each of ids in turn (a document always holds body, so the
\* test on nodes only makes each intermediate document a value)
RECURSIVE DetachAll(_, _)
DetachAll(nodes, ids) ==
    IF Len(ids) = 0 \/ Len(nodes) = 0 THEN nodes
    ELSE DetachAll(Detach(nodes, Head(ids)), Tail(ids))

\* the nodes of the document below body, in document order
DocNodes(nodes) == Tail(Subtree(nodes, Body))

removeComments(nodes) ==
    DetachAll(nodes, SelectSeq(DocNodes(nodes), LAMBDA n : nodes[n].kind = "comment"))

\* doc.getElementsByTagName(tag), snapshot
ElementsByTagName(nodes, tag) ==
    SelectSeq(DocNodes(nodes), LAMBDA n : nodes[n].kind = "elem" /\ nodes[n].tag = tag)

\* the forEach over excludedTags, one tag after the other
RECURSIVE RemoveTags(_, _)
RemoveTags(nodes, tags) ==
    IF Len(tags) = 0 \/ Len(nodes) = 0 THEN nodes
    ELSE RemoveTags(DetachAll(nodes, ElementsByTagName(nodes, Head(tags))), Tail(tags))

removeUnwantedTags(nodes) == RemoveTags(nodes, ExcludedTags)

-----------------------------------------------------------------------------
(* HtmlFilter: metrics and composite score *)

\* node.textContent.trim().length
TextLen(nodes, n) == Len(Trim(TextContent(nodes, n)))

\* node.innerHTML.length
TagLen(nodes, n) == Len(InnerHTML(nodes, n))

RECURSIVE SumTextLen(_, _)
SumTextLen(nodes, ids) ==
    IF Len(ids) = 0 THEN 0 ELSE TextLen(nodes, Head(ids)) + SumTextLen(nodes, Tail(ids))

\* the trimmed text length of every descendant a element (querySelectorAll('a'))
LinkTextLen(nodes, n) ==
    SumTextLen(nodes, SelectSeq(Tail(Subtree(nodes, n)),
                                LAMBDA k : nodes[k].kind = "elem" /\ nodes[k].tag = "a"))

\* `${node.className} ${node.id}`.toLowerCase() (attribute values are lower case)
ClassAndId(nodes, n) ==
    AttrValue(nodes[n].attrs, "class") \o " " \o AttrValue(nodes[n].attrs, "id")

\* computeClassIdWeight, in halves: -0.5 or 0
ClassIdWeight2(nodes, n) ==
    IF \E w \in NegativeWords : Contains(ClassAndId(nodes, n), w) THEN -1 ELSE 0

Min(a, b) == IF a < b THEN a ELSE b

\* computeCompositeScore times ScoreDen (lines 296-331): the weighted sum over
\* the common denominator 100 * tagLen * textLen, then divided by totalWeight
ScoreDen(textLen, tagLen) ==
    100 * (IF tagLen > 0 THEN tagLen ELSE 1) * (IF textLen > 0 THEN textLen ELSE 1) * TotalWeight

\* a score that rewards link density instead of penalising it
ScoreNumLinkBonus(tag, classIdWeight2, textLen, tagLen, linkTextLen) ==
      100 * WTextDensity * (IF tagLen > 0 THEN textLen ELSE 0)
          * (IF textLen > 0 THEN textLen ELSE 1)
    + 100 * WLinkDensity * (IF textLen > 0 THEN linkTextLen ELSE 0)
          * (IF tagLen > 0 THEN tagLen ELSE 1)
    + ( 10 * WTagWeight * TagWeight10(tag)
      + 50 * WClassId * classIdWeight2
      + WTextLength * Min(100, textLen) )
        * (IF tagLen > 0 THEN tagLen ELSE 1) * (IF textLen > 0 THEN textLen ELSE 1)

ScoreNum(tag, classIdWeight2, textLen, tagLen, linkTextLen) ==
      100 * WTextDensity * (IF tagLen > 0 THEN textLen ELSE 0)
          * (IF textLen > 0 THEN textLen ELSE 1)
    - 100 * WLinkDensity * (IF textLen > 0 THEN linkTextLen ELSE 0)
          * (IF tagLen > 0 THEN tagLen ELSE 1)
    + ( 10 * WTagWeight * TagWeight10(tag)
      + 50 * WClassId * classIdWeight2
      + WTextLength * Min(100, textLen) )
        * (IF tagLen > 0 THEN tagLen ELSE 1) * (IF textLen > 0 THEN textLen ELSE 1)

\* a dynamic threshold lowered by the tag's entry in tagWeights, the table the
\* score reads, instead of its entry in tagImportance
CurrentThresholdByTagWeight(filter, tag, textLen, tagLen) ==
    IF filter.thresholdType = "fixed" THEN filter.threshold * 100
    ELSE filter.threshold
           * (IF TagWeight10(tag) > 10 THEN 8 ELSE 10)
           * (IF tagLen > 0 /\ 10 * textLen > 4 * tagLen THEN 9 ELSE 10)

\* the threshold an element is compared with, in hundred-thousandths
\* (lines 234-250)
CurrentThreshold(filter, tag, textLen, tagLen) ==
    IF filter.thresholdType = "fixed" THEN filter.threshold * 100
    ELSE filter.threshold
           * (IF TagImportance10(tag) > 10 THEN 8 ELSE 10)
           * (IF tagLen > 0 /\ 10 * textLen > 4 * tagLen THEN 9 ELSE 10)

\* score < currentThreshold, for score = num / den and a threshold of
\* thr hundred-thousandths (thr is a multiple of 10, den of 1000)
BelowThreshold(num, den, thr) == num * 10 < (thr \div 10) * (den \div 1000)

ShouldRemove(filter, nodes, n) ==
    BelowThreshold(
        ScoreNum(nodes[n].tag, ClassIdWeight2(nodes, n), TextLen(nodes, n), TagLen(nodes, n),
                 LinkTextLen(nodes, n)),
        ScoreDen(TextLen(nodes, n), TagLen(nodes, n)),
        CurrentThreshold(filter, nodes[n].tag, TextLen(nodes, n), TagLen(nodes, n)))

\* the locals of one activation of pruneTree (lines 216-250): the metrics, the
\* score as the fraction num / den
Scored(filter, nodes, n) ==
    [node        |-> n,
     tagName     |-> nodes[n].tag,
     textLen     |-> TextLen(nodes, n),
     tagLen      |-> TagLen(nodes, n),
     linkTextLen |-> LinkTextLen(nodes, n),
     num         |-> ScoreNum(nodes[n].tag, ClassIdWeight2(nodes, n), TextLen(nodes, n),
                              TagLen(nodes, n), LinkTextLen(nodes, n)),
     den         |-> ScoreDen(TextLen(nodes, n), TagLen(nodes, n))]

\* node.parentNode && node.parentNode !== node.ownerDocument
HasRemovableParent(nodes, n) == nodes[n].parent # NoParent

isEssentialTag(tag) == tag \in IncludedTags

\* the number of maximal runs of non-space characters of s
RECURSIVE WordRuns(_, _)
WordRuns(s, i) ==
    IF i > Len(s) THEN 0
    ELSE (IF ~IsSpace(CharAt(s, i)) /\ (i = 1 \/ IsSpace(CharAt(s, i - 1))) THEN 1 ELSE 0)
           + WordRuns(s, i + 1)

\* countWords (lines 358-361): splitting the empty trimmed string yields one piece
countWords(text) ==
    IF text = "" THEN 0
    ELSE IF Trim(text) = "" THEN 1
    ELSE WordRuns(text, 1)

\* the emptiness test after the children were processed (lines 266-267)
EmptyAfterChildren(filter, nodes, n) ==
    /\ Len(ElemKids(nodes, n)) = 0
    /\ Len(Trim(TextContent(nodes, n))) = 0
    /\ ~isEssentialTag(nodes[n].tag)
    /\ countWords(TextContent(nodes, n)) < filter.minWordCount
    /\ HasRemovableParent(nodes, n)

-----------------------------------------------------------------------------
(* HtmlProcessor: option resolution and filter construction *)

\* the filter options of a preset (presets.ts lines 6-143); ratio in thousandths
PresetFilter(name) ==
    CASE name = "default" -> [threshold |-> 2, strategy |-> "dynamic", ratio |-> 480, minWords |-> 0]
      [] name = "article" -> [threshold |-> 3, strategy |-> "dynamic", ratio |-> 550, minWords |-> 10]
      [] name = "blog"    -> [threshold |-> 2, strategy |-> "dynamic", ratio |-> 500, minWords |-> 5]
      [] name = "news"    -> [threshold |-> 2, strategy |-> "fixed", ratio |-> 450, minWords |-> 15]
      [] name = "strict"  -> [threshold |-> 4, strategy |-> "fixed", ratio |-> 600, minWords |-> 20]
      [] name = "loose"   -> [threshold |-> 1, strategy |-> "dynamic", ratio |-> 300, minWords |-> 0]

\* the default filter options of resolveOptions (html-filter.ts lines 704-711)
FilterDefaults == [threshold |-> 2, strategy |-> "dynamic", ratio |-> DefaultThreshold, minWords |-> 0]

\* the object spread {...base, ...layer}: layer holds the keys in layer.keys
Spread(base, layer) ==
    [threshold |-> IF "threshold" \in layer.keys THEN layer.threshold ELSE base.threshold,
     strategy  |-> IF "strategy" \in layer.keys THEN layer.strategy ELSE base.strategy,
     ratio     |-> IF "ratio" \in layer.keys THEN layer.ratio ELSE base.ratio,
     minWords  |-> IF "minWords" \in layer.keys THEN layer.minWords ELSE base.minWords]

\* resolveOptions (lines 697-724) and mergeWithPreset (presets.ts 182-200):
\* the preset's filter options, or the defaults, overridden by the keys given
resolveOptions(given) ==
    IF given.preset # "" THEN Spread(PresetFilter(given.preset), given)
    ELSE Spread(FilterDefaults, given)

\* createHtmlFilter: falsy option values fall back to 2, 'dynamic', 0.48
createHtmlFilter(filterOpts) ==
    NewHtmlFilter(IF filterOpts.threshold # 0 THEN filterOpts.threshold ELSE 2,
                  IF filterOpts.strategy # "" THEN filterOpts.strategy ELSE "dynamic",
                  IF filterOpts.ratio # 0 THEN filterOpts.ratio ELSE DefaultThreshold)

-----------------------------------------------------------------------------
(* Inputs *)

Sentence == "Real content with many words here"

LongText == Sentence \o " " \o Sentence \o " " \o Sentence \o " " \o Sentence

Blocks ==
    { "<div class=\"ad\">x</div>",
      "<article><p>" \o Sentence \o "</p></article>",
      "<nav><a>home</a></nav>",
      "<p>" \o LongText \o "</p>",
      "<div><span>x</span></div>",
      "<div class=\"ads\">seen</div>",
      "<!--c-->",
      "<p>open",
      "<div><footer>f</footer><p>in</p></div>",
      "<u><a></a></u>",
      "hello ",
      "<article><a>home</a><span><span>" \o Sentence \o "</span></span></article>",
      "<p><span><span>twenty chars of text</span></span></p>",
      "<u> <a></a></u>" }

BlockSeqs == UNION { [1..n -> Blocks] : n \in 0..MaxBlocks }

Htmls == { JoinStr(bs, "") : bs \in BlockSeqs }

\* the HtmlFilter instances constructed directly
DirectFilters ==
    { DefaultFilter, NewHtmlFilter(0, "dynamic", DefaultThreshold), NewHtmlFilter(3, "fixed", 50),
      NewHtmlFilter(1, "fixed", 0) }

\* the filter options handed to HtmlProcessor.from
GivenOptions ==
    { [preset |-> "", keys |-> {}, threshold |-> 0, strategy |-> "", ratio |-> 0, minWords |-> 0],
      [preset |-> "", keys |-> {"threshold", "strategy", "ratio"},
       threshold |-> 5, strategy |-> "fixed", ratio |-> 0, minWords |-> 0] }

NoOptions == [threshold |-> 0, strategy |-> "", ratio |-> 0, minWords |-> 0]

\* tables as rows of cell texts, the first row being the header
TableCases ==
    { << <<"A", "B">>, <<"1", "2">> >>,
      << <<"a|b", " c ", "">> >>,
      << <<"H">>, <<"1">>, <<"x y">> >> }

\* the markup of a row of cells, each in an element named tag
RECURSIVE CellsHtml(_, _)
CellsHtml(cells, tag) ==
    IF Len(cells) = 0 THEN ""
    ELSE "<" \o tag \o ">" \o Head(cells) \o "</" \o tag \o ">" \o CellsHtml(Tail(cells), tag)

RECURSIVE RowsHtml(_, _)
RowsHtml(rows, tag) ==
    IF Len(rows) = 0 THEN ""
    ELSE "<tr>" \o CellsHtml(Head(rows), tag) \o "</tr>" \o RowsHtml(Tail(rows), "td")

\* the markup of a table: th cells in the first row, td cells in the others
TableHtml(rows) == "<table>" \o RowsHtml(rows, "th") \o "</table>"

\* HTML given to the serializer
MdHtmls ==
    { "",
      "<table><tr><td><b>2</b></td></tr></table>",
      "<ol><li>a</li><li>b</li><li>c</li></ol>",
      "<ul><li>a</li><li> b </li></ul>",
      "<ol><li>a<ol><li>b</li><li>c</li></ol></li><li>d</li></ol>",
      "<ul><li>a<ul><li>b</li></ul></li></ul>",
      "<p>x <a href=\"u\">l</a> <a href=\"#f\">m</a></p>",
      "<h2>T</h2><p>t<br><img src=\"/i\" alt=\"i\"></p>",
      "<pre><code class=\"language-js\">c</code></pre>",
      "<script>s</script><blockquote>q</blockquote>",
      "<h2>T<script>zq</script><!--zc--></h2><p>u<style>zq</style><!--zc-->v</p>",
      "<pre>k<noscript>zq</noscript><!--zc--></pre><p><code>m<iframe>zq</iframe></code></p>",
      "<ul><li>a<svg><b>zq</b></svg><!--zc--></li></ul><a href=\"u\">l<script>zq</script></a>" }
    \cup { TableHtml(rows) : rows \in TableCases }

\* the two CustomHtml2Text of the sources: handle returns the Markdown
\* (unnamed/part_000) or a promise of it (src/html2text.ts)
Builds == {"sync", "async"}

NoMdOut == [kind |-> "none"]

-----------------------------------------------------------------------------
(* CustomHtml2Text (html2text.ts): the serializer from a document to Markdown *)

\* new CustomHtml2Text(baseUrl) after updateParams(finalOptions) of
\* generateMarkdown (html2text.ts 16-31, markdown-generator.ts 165-178)
Html2Text(base) ==
    [baseUrl |-> base, ignoreEmphasis |-> FALSE, ignoreLinks |-> FALSE, ignoreImages |-> FALSE,
     skipInternalLinks |-> TRUE, includeSuperSub |-> FALSE]

\* the backtick, which a TLA+ string cannot hold, is written as an apostrophe;
\* no input holds an apostrophe
Tick == "'"

Fence == Tick \o Tick \o Tick

\* a cleaning that removes only the script elements
cleanDocumentScriptsOnly(nodes) == RemoveTags(nodes, <<"script">>)

\* cleanDocument (lines 60-72)
cleanDocument(nodes) == RemoveTags(nodes, <<"script", "style", "iframe", "noscript", "svg">>)

\* text.replace(/\s+/g, ' ') from position i on
RECURSIVE CollapseSpace(_, _)
CollapseSpace(s, i) ==
    IF i > Len(s) THEN ""
    ELSE IF IsSpace(CharAt(s, i))
         THEN (IF i > 1 /\ IsSpace(CharAt(s, i - 1)) THEN "" ELSE " ") \o CollapseSpace(s, i + 1)
         ELSE CharAt(s, i) \o CollapseSpace(s, i + 1)

\* text.replace(/\|/g, '\\|') from position i on
RECURSIVE EscapePipes(_, _)
EscapePipes(s, i) ==
    IF i > Len(s) THEN ""
    ELSE (IF CharAt(s, i) = "|" THEN "\\|" ELSE CharAt(s, i)) \o EscapePipes(s, i + 1)

\* c.repeat(n)
RECURSIVE Repeat(_, _)
Repeat(c, n) == IF n <= 0 THEN "" ELSE c \o Repeat(c, n - 1)

\* parseInt(tagName.substring(1)) for h1..h6
HeaderLevel(tag) ==
    CASE tag = "h1" -> 1 [] tag = "h2" -> 2 [] tag = "h3" -> 3
      [] tag = "h4" -> 4 [] tag = "h5" -> 5 [] tag = "h6" -> 6

\* the optional title of a link or image: a space and the title in double quotes
TitlePart(nodes, n) ==
    IF AttrValue(nodes[n].attrs, "title") = "" THEN ""
    ELSE " \"" \o AttrValue(nodes[n].attrs, "title") \o "\""

\* getTextContent (lines 217-220)
getTextContent(nodes, n) == Trim(TextContent(nodes, n))

\* element.querySelectorAll(tags): the descendants with one of the tags, in
\* document order
QuerySelectorAll(nodes, n, tags) ==
    SelectSeq(Tail(Subtree(nodes, n)), LAMBDA k : nodes[k].kind = "elem" /\ nodes[k].tag \in tags)

\* className.match(/language-(\S+)/)?.[1] || '', the search starting at i
RECURSIVE LanguageOf(_, _)
LanguageOf(cls, i) ==
    IF IndexOfStr(cls, "language-", i) = 0 THEN ""
    ELSE IF IndexOfStr(cls, "language-", i) + 9 > Len(cls)
            \/ IsSpace(CharAt(cls, IndexOfStr(cls, "language-", i) + 9))
         THEN LanguageOf(cls, IndexOfStr(cls, "language-", i) + 1)
         ELSE SubSeq(cls, IndexOfStr(cls, "language-", i) + 9,
                     IF IndexOfFrom(cls, " ", IndexOfStr(cls, "language-", i) + 9) = 0
                     THEN Len(cls)
                     ELSE IndexOfFrom(cls, " ", IndexOfStr(cls, "language-", i) + 9) - 1)

\* the 'pre' case (lines 126-131), codes being element.querySelectorAll('code')
PreBlock(nodes, n, codes) ==
    "\n" \o Fence
      \o (IF Len(codes) = 0 THEN "" ELSE LanguageOf(AttrValue(nodes[codes[1]].attrs, "class"), 1))
      \o "\n"
      \o Trim(TextContent(nodes, IF Len(codes) = 0 THEN n ELSE codes[1]))
      \o "\n" \o Fence \o "\n\n"

\* the 'a' case without ignoreLinks (lines 146-154)
Anchor(h, nodes, n, href, text) ==
    IF h.skipInternalLinks /\ (StartsWith(href, "#") \/ href = "") THEN text
    ELSE IF text # ""
         THEN "[" \o text \o "](" \o resolveUrl(h.baseUrl, href) \o TitlePart(nodes, n) \o ")"
         ELSE "<" \o resolveUrl(h.baseUrl, href) \o ">"

\* the lines of a blockquote, each behind "> " (line 274)
RECURSIVE QuoteLines(_)
QuoteLines(lines) ==
    IF Len(lines) = 0 THEN <<>> ELSE <<"> " \o Head(lines)>> \o QuoteLines(Tail(lines))

RECURSIVE domToMarkdown(_, _, _)
RECURSIVE processChildren(_, _, _)
RECURSIVE processList(_, _, _, _, _)
RECURSIVE CellContents(_, _, _)
RECURSIVE processTable(_, _, _, _)

\* processChildren (lines 227-244) over the child nodes ks: text nodes with
\* whitespace collapsed, elements converted, comments skipped
processChildren(h, nodes, ks) ==
    IF Len(ks) = 0 THEN ""
    ELSE (IF nodes[Head(ks)].kind = "text" THEN CollapseSpace(nodes[Head(ks)].text, 1)
          ELSE IF nodes[Head(ks)].kind = "elem" THEN domToMarkdown(h, nodes, Head(ks))
          ELSE "")
         \o processChildren(h, nodes, Tail(ks))

\* processList (lines 252-265) from the i-th of listItems on
processList(h, nodes, listItems, i, marker) ==
    IF i > Len(listItems) THEN ""
    ELSE (IF marker = "1." THEN ToString(i) \o ". " ELSE marker \o " ")
           \o Trim(processChildren(h, nodes, nodes[listItems[i]].kids)) \o "\n"
           \o processList(h, nodes, listItems, i + 1, marker)

\* the cellContents of one row (lines 288-293)
CellContents(h, nodes, cells) ==
    IF Len(cells) = 0 THEN <<>>
    ELSE <<EscapePipes(Trim(processChildren(h, nodes, nodes[Head(cells)].kids)), 1)>>
           \o CellContents(h, nodes, Tail(cells))

\* cellContents.map(() => '---')
Dashes(cells) == [c \in 1..Len(cells) |-> "---"]

\* a table whose separator line has no spaces
processTableCompact(h, nodes, rows, i) ==
    IF i > Len(rows) THEN ""
    ELSE "| " \o JoinStr(CellContents(h, nodes, QuerySelectorAll(nodes, rows[i], {"td", "th"})),
                         " | ") \o " |\n"
           \o (IF i = 1
               THEN "|" \o JoinStr(Dashes(QuerySelectorAll(nodes, rows[i], {"td", "th"})), "|")
                        \o "|\n"
               ELSE "")
           \o processTable(h, nodes, rows, i + 1)

\* processTable (lines 282-304) from the i-th of rows on
processTable(h, nodes, rows, i) ==
    IF i > Len(rows) THEN ""
    ELSE "| " \o JoinStr(CellContents(h, nodes, QuerySelectorAll(nodes, rows[i], {"td", "th"})),
                         " | ") \o " |\n"
           \o (IF i = 1
               THEN "| " \o JoinStr(Dashes(QuerySelectorAll(nodes, rows[i], {"td", "th"})), " | ")
                         \o " |\n"
               ELSE "")
           \o processTable(h, nodes, rows, i + 1)

\* processBlockquote (lines 272-275)
processBlockquote(h, nodes, n) ==
    JoinStr(QuoteLines(SplitStr(Trim(processChildren(h, nodes, nodes[n].kids)), "\n")), "\n")
      \o "\n"

\* domToMarkdown (lines 80-210)
domToMarkdown(h, nodes, n) ==
    CASE nodes[n].tag \in {"h1", "h2", "h3", "h4", "h5", "h6"} ->
            "\n" \o Repeat("#", HeaderLevel(nodes[n].tag)) \o " "
                 \o Trim(getTextContent(nodes, n)) \o "\n\n"
      [] nodes[n].tag = "p" -> Trim(processChildren(h, nodes, nodes[n].kids)) \o "\n\n"
      [] nodes[n].tag = "br" -> "\n"
      [] nodes[n].tag = "hr" -> "\n---\n\n"
      [] nodes[n].tag = "ul" ->
            processList(h, nodes, QuerySelectorAll(nodes, n, {"li"}), 1, "*") \o "\n"
      [] nodes[n].tag = "ol" ->
            processList(h, nodes, QuerySelectorAll(nodes, n, {"li"}), 1, "1.") \o "\n"
      [] nodes[n].tag = "li" -> "* " \o Trim(processChildren(h, nodes, nodes[n].kids)) \o "\n"
      [] nodes[n].tag = "blockquote" -> processBlockquote(h, nodes, n) \o "\n"
      [] nodes[n].tag = "pre" -> PreBlock(nodes, n, QuerySelectorAll(nodes, n, {"code"}))
      [] nodes[n].tag = "code" ->
            IF nodes[n].parent \in 1..Len(nodes) /\ nodes[nodes[n].parent].tag = "pre"
            THEN Trim(TextContent(nodes, n))
            ELSE Tick \o Trim(TextContent(nodes, n)) \o Tick
      [] nodes[n].tag = "a" ->
            IF h.ignoreLinks THEN getTextContent(nodes, n)
            ELSE Anchor(h, nodes, n, AttrValue(nodes[n].attrs, "href"),
                        Trim(getTextContent(nodes, n)))
      [] nodes[n].tag = "img" ->
            IF h.ignoreImages THEN ""
            ELSE "![" \o AttrValue(nodes[n].attrs, "alt") \o "]("
                   \o resolveUrl(h.baseUrl, AttrValue(nodes[n].attrs, "src"))
                   \o TitlePart(nodes, n) \o ")"
      [] nodes[n].tag \in {"strong", "b"} ->
            IF h.ignoreEmphasis THEN Trim(processChildren(h, nodes, nodes[n].kids))
            ELSE "**" \o Trim(processChildren(h, nodes, nodes[n].kids)) \o "**"
      [] nodes[n].tag \in {"em", "i"} ->
            IF h.ignoreEmphasis THEN Trim(processChildren(h, nodes, nodes[n].kids))
            ELSE "_" \o Trim(processChildren(h, nodes, nodes[n].kids)) \o "_"
      [] nodes[n].tag = "table" ->
            processTable(h, nodes, QuerySelectorAll(nodes, n, {"tr"}), 1) \o "\n\n"
      [] nodes[n].tag = "sup" ->
            IF h.includeSuperSub THEN "^" \o Trim(getTextContent(nodes, n)) \o "^"
            ELSE Trim(getTextContent(nodes, n))
      [] nodes[n].tag = "sub" ->
            IF h.includeSuperSub THEN "~" \o Trim(getTextContent(nodes, n)) \o "~"
            ELSE Trim(getTextContent(nodes, n))
      [] OTHER -> processChildren(h, nodes, nodes[n].kids)

\* a handle that ends whatever it returns with a line break
handleWithLineBreak(h, source) ==
    (IF source = "" THEN ""
     ELSE domToMarkdown(h, cleanDocument(ParseHtml(source)), Body)) \o "\n"

\* handle (lines 46-54), the value the call returns or resolves to
handle(h, source) ==
    IF source = "" THEN ""
    ELSE domToMarkdown(h, cleanDocument(ParseHtml(source)), Body)

\* text.replace(/^\s*FENCE/gm, FENCE) from position i on (markdown-generator.ts
\* line 190): at the start of a line, white space before a fence is dropped
FirstNonSpace(s, i) ==
    IF \A j \in i..Len(s) : IsSpace(CharAt(s, j)) THEN Len(s) + 1
    ELSE CHOOSE j \in i..Len(s) :
             ~IsSpace(CharAt(s, j)) /\ \A k \in i..(j - 1) : IsSpace(CharAt(s, k))

RECURSIVE CleanFences(_, _)
CleanFences(s, i) ==
    IF i > Len(s) THEN ""
    ELSE IF (i = 1 \/ CharAt(s, i - 1) = "\n")
            /\ StartsWith(SliceFrom(s, FirstNonSpace(s, i)), Fence)
         THEN Fence \o CleanFences(s, FirstNonSpace(s, i) + 3)
         ELSE CharAt(s, i) \o CleanFences(s, i + 1)

-----------------------------------------------------------------------------
(* Errors *)

NoError == [name |-> "", code |-> "", message |-> "", cause |-> <<>>]

\* the error of a failing DOM operation
DomError ==
    [name |-> "ReferenceError", code |-> "", message |-> "DOMParser is not defined", cause |-> <<>>]

\* the error an overriding or failing convertLinksToRefs throws
CitationError == [name |-> "Error", code |-> "", message |-> "boom", cause |-> <<>>]

\* what calling replace on a promise throws
NotAFunction ==
    [name |-> "TypeError", code |-> "", message |-> "rawMarkdown.replace is not a function",
     cause |-> <<>>]

\* an error wrapper that drops the cause
FilterErrorWithoutCause(message, cause) ==
    [name |-> "FilterError", code |-> "FILTER_ERROR", message |-> message, cause |-> <<>>]

\* new FilterError(message, cause); cause is <<>> for undefined
FilterError(message, cause) ==
    [name |-> "FilterError", code |-> "FILTER_ERROR", message |-> message, cause |-> cause]

-----------------------------------------------------------------------------
(* DefaultMarkdownGenerator.generateMarkdown (markdown-generator.ts 157-238), *)
(* the generator constructed without a content filter                        *)

\* the result object; x || '' is x for a string x
MarkdownResult(raw, withCitations, references, fit, fitHtml) ==
    [kind |-> "result", rawMarkdown |-> raw, markdownWithCitations |-> withCitations,
     referencesMarkdown |-> references, fitMarkdown |-> fit, fitHtml |-> fitHtml]

\* the outer catch (lines 229-237)
ErrorResult(error) ==
    MarkdownResult("Error in markdown generation: " \o error.message,
                   "Error in markdown generation: " \o error.message,
                   "",
                   "Error in markdown generation: " \o error.message,
                   "Error in markdown generation: " \o error.message)

\* the text generateMarkdown holds in rawMarkdown after line 190 when handle
\* returned a string: the serializer's text, or the diagnostic of the inner
\* catch (lines 182-187), with the fences cleaned (line 190)
CleanedRawMarkdown(base, source, failure) ==
    IF failure = "serializer"
    THEN CleanFences("Error converting HTML to markdown: " \o DomError.message, 1)
    ELSE CleanFences(handle(Html2Text(base), source), 1)

\* a generator whose result drops rawMarkdown when citation rewriting fails
generateMarkdownLosingRaw(linked, raw, withCitations, failure, converted) ==
    IF linked = "async" THEN ErrorResult(NotAFunction)
    ELSE IF ~withCitations THEN MarkdownResult(raw, raw, "", raw, "")
    ELSE IF failure = "citations"
    THEN MarkdownResult("", "", "\n\nError generating citations: " \o CitationError.message,
                        "", "")
    ELSE MarkdownResult(raw, converted.text, converted.refs, raw, "")

\* generateMarkdown from line 189 on.  With the handle that returns a promise,
\* replace is called on the promise and the outer catch builds the result.
\* Otherwise raw is the cleaned raw markdown and converted what
\* convertLinksToRefs returned, where it was called and returned.
generateMarkdown(linked, raw, withCitations, failure, converted) ==
    IF linked = "async" THEN ErrorResult(NotAFunction)
    ELSE IF ~withCitations THEN MarkdownResult(raw, raw, "", raw, "")
    ELSE IF failure = "citations"
    THEN MarkdownResult(raw, raw, "\n\nError generating citations: " \o CitationError.message,
                        raw, "")
    ELSE MarkdownResult(raw, converted.text, converted.refs, raw, "")

-----------------------------------------------------------------------------
(* HtmlFilter.filterContent and HtmlProcessor.filter as a state machine *)

Frame(n) == [node |-> n, children |-> <<>>, i |-> 0]

\* how a call ended: what it was given and what it returned, or that it threw
CallReturned(fn, args, value) == [fn |-> fn, args |-> args, kind |-> "returned", value |-> value]

CallThrew(fn, args) == [fn |-> fn, args |-> args, kind |-> "threw", value |-> <<>>]

Top == stack[Len(stack)]

Pop == SubSeq(stack, 1, Len(stack) - 1)

\* where control goes when filterContent returns
AfterReturn == IF api = "processor" THEN "joined" ELSE "done"

\* where control goes when an activation of pruneTree returns
AfterPrune == IF Len(stack) = 1 THEN "collect" ELSE "prune"

RECURSIVE OuterHTMLs(_, _)
OuterHTMLs(nodes, ids) ==
    IF Len(ids) = 0 THEN <<>>
    ELSE <<OuterHTML(nodes, Head(ids))>> \o OuterHTMLs(nodes, Tail(ids))

\* a collection that forgets the text test of line 147
contentBlocksUnfiltered(nodes) == OuterHTMLs(nodes, ElemKids(nodes, Body))

\* a collection over every element of the document instead of body.children
contentBlocksOfAll(nodes) ==
    OuterHTMLs(nodes, SelectSeq(DocNodes(nodes),
                                LAMBDA k : nodes[k].kind = "elem" /\ TextLen(nodes, k) > 0))

\* lines 145-150: the element children of body with non-blank text
contentBlocks(nodes) ==
    OuterHTMLs(nodes, SelectSeq(ElemKids(nodes, Body), LAMBDA k : TextLen(nodes, k) > 0))

\* HtmlProcessor.filter up to the call of filterContentAsString (no plugin is
\* registered: applyFilterPlugins returns its argument)
ProcFilterCall ==
    /\ pc = "filter"
    /\ options' = Spread(Spread(options, pageTypeResult), filterArg)
    /\ cfg' = createHtmlFilter(options')
    /\ html' = currentHtml
    /\ pc' = "call"
    /\ calls' = 0
    /\ UNCHANGED <<sideVars, citeVars, urlVars, scored, api, dom, stack, fragments, pass, firstOut, log,
                   currentHtml, processed, build, citations, fault, parseCalls, thrown, mdOut, history>>

\* filterContent lines 126-143: parse, removeComments, removeUnwantedTags and
\* the call pruneTree(body); the empty string returns [] at once
FilterContentCall ==
    /\ pc = "call"
    /\ IF html = ""
       THEN /\ fragments' = <<>>
            /\ pc' = AfterReturn
            /\ UNCHANGED <<dom, stack>>
       ELSE /\ dom' = removeUnwantedTags(removeComments(ParseHtml(html)))
            /\ stack' = <<Frame(Body)>>
            /\ pc' = "prune"
            /\ UNCHANGED fragments
    /\ log' = <<>>
    /\ scored' = <<>>
    /\ calls' = calls + 1
    /\ parseCalls' = IF html = "" THEN parseCalls ELSE parseCalls + 1
    /\ history' = IF html = "" THEN Append(history, CallReturned("filterContent", <<html>>, <<>>))
                  ELSE history
    /\ UNCHANGED <<sideVars, citeVars, urlVars, api, options, cfg, html, pass, firstOut, currentHtml, processed,
                   build, citations, fault, thrown, mdOut>>

\* filterContent lines 130-143 where a DOM operation throws (the constructor
\* new DOMParser() of line 130, document.createNodeIterator of line 170, or the
\* recursion of pruneTree): the error leaves filterContent; HtmlProcessor.filter
\* wraps it in a FilterError (html-filter.ts 509-512)
FilterContentThrows ==
    /\ pc = "call"
    /\ fault = "filter"
    /\ html # ""
    /\ calls' = calls + 1
    /\ thrown' = IF api = "processor"
                 THEN FilterError("HTML filtering failed: " \o DomError.message, <<DomError>>)
                 ELSE DomError
    /\ pc' = "threw"
    /\ history' = Append(history, IF api = "processor" THEN CallThrew("filter", <<filterArg>>)
                                  ELSE CallThrew("filterContent", <<html>>))
    /\ UNCHANGED <<sideVars, citeVars, urlVars, filterData, build, citations, fault, parseCalls, mdOut>>

\* pruneTree without the return of line 255: the detached node's children are
\* visited as well
PruneVisitDescending ==
    /\ pc = "prune"
    /\ Top.i = 0
    /\ scored' = Append(scored, Scored(cfg, dom, Top.node))
    /\ IF ShouldRemove(cfg, dom, Top.node) /\ HasRemovableParent(dom, Top.node)
       THEN /\ dom' = Detach(dom, Top.node)
            /\ log' = Append(log, [node |-> Top.node, why |-> "score"])
       ELSE UNCHANGED <<dom, log>>
    /\ stack' = [stack EXCEPT ![Len(stack)] =
                    [node |-> Top.node, children |-> ElemKids(dom, Top.node), i |-> 1]]
    /\ UNCHANGED <<sideVars, citeVars, urlVars, runVars, api, options, cfg, html, fragments, pass, firstOut,
                   currentHtml, processed, pc>>

\* pruneTree lines 212-259: score the node; detach it and return, or take the
\* snapshot of its element children
PruneVisit ==
    /\ pc = "prune"
    /\ Top.i = 0
    /\ scored' = Append(scored, Scored(cfg, dom, Top.node))
    /\ IF ShouldRemove(cfg, dom, Top.node) /\ HasRemovableParent(dom, Top.node)
       THEN /\ dom' = Detach(dom, Top.node)
            /\ log' = Append(log, [node |-> Top.node, why |-> "score"])
            /\ stack' = Pop
            /\ pc' = AfterPrune
       ELSE /\ stack' = [stack EXCEPT ![Len(stack)] =
                            [node |-> Top.node, children |-> ElemKids(dom, Top.node), i |-> 1]]
            /\ UNCHANGED <<dom, log, pc>>
    /\ UNCHANGED <<sideVars, citeVars, urlVars, runVars, api, options, cfg, html, fragments, pass, firstOut,
                   currentHtml, processed>>

\* pruneTree lines 260-262: the recursive call on the next child of the snapshot
PruneChild ==
    /\ pc = "prune"
    /\ Top.i >= 1
    /\ Top.i <= Len(Top.children)
    /\ stack' = Append([stack EXCEPT ![Len(stack)].i = @ + 1], Frame(Top.children[Top.i]))
    /\ UNCHANGED <<sideVars, citeVars, urlVars, runVars, scored, api, options, cfg, html, dom, pc, fragments, pass, firstOut, log,
                   currentHtml, processed>>

\* pruneTree lines 266-273: after the children, detach the node when it is
\* childless, blank and not essential; return
PruneLeave ==
    /\ pc = "prune"
    /\ Top.i > Len(Top.children)
    /\ IF EmptyAfterChildren(cfg, dom, Top.node)
       THEN /\ dom' = Detach(dom, Top.node)
            /\ log' = Append(log, [node |-> Top.node, why |-> "empty"])
       ELSE UNCHANGED <<dom, log>>
    /\ stack' = Pop
    /\ pc' = AfterPrune
    /\ UNCHANGED <<sideVars, citeVars, urlVars, runVars, scored, api, options, cfg, html, fragments, pass, firstOut,
                   currentHtml, processed>>

\* filterContent lines 145-152
Collect ==
    /\ pc = "collect"
    /\ fragments' = contentBlocks(dom)
    /\ pc' = AfterReturn
    /\ history' = Append(history, CallReturned("filterContent", <<html>>, fragments'))
    /\ UNCHANGED <<sideVars, citeVars, urlVars, build, citations, fault, parseCalls, calls, thrown, mdOut, scored, api, options, cfg, html, dom, stack, pass, firstOut, log,
                   currentHtml, processed>>

\* HtmlProcessor.filter after filterContentAsString returned (html-filter.ts 498-501)
ProcFilterReturn ==
    /\ pc = "joined"
    /\ currentHtml' = IF JoinStr(fragments, "") # "" THEN JoinStr(fragments, "") ELSE currentHtml
    /\ processed' = TRUE
    /\ pc' = "done"
    /\ history' = Append(history, CallReturned("filter", <<filterArg>>, <<currentHtml'>>))
    /\ UNCHANGED <<sideVars, citeVars, urlVars, build, citations, fault, parseCalls, calls, thrown, mdOut, scored, api, options, cfg, html, dom, stack, fragments, pass, firstOut, log>>

\* the client filters the output of the first filtering
Refilter ==
    /\ pc = "done"
    /\ pass = 1
    /\ pass' = 2
    /\ firstOut' = fragments
    /\ IF api = "processor"
       THEN pc' = "filter" /\ UNCHANGED html
       ELSE pc' = "call" /\ html' = JoinStr(fragments, "")
    /\ UNCHANGED <<sideVars, citeVars, urlVars, runVars, scored, api, options, cfg, dom, stack, fragments, log,
                   currentHtml, processed>>

\* CustomHtml2Text.handle called and, where it returns a promise, awaited
CallHandle ==
    /\ pc = "handle"
    /\ mdOut' = [kind |-> "text", text |-> handle(Html2Text(baseUrl), html)]
    /\ parseCalls' = IF html = "" THEN parseCalls ELSE parseCalls + 1
    /\ pc' = "handled"
    /\ UNCHANGED <<sideVars, citeVars, urlVars, filterData, build, citations, fault, calls, thrown, history>>

\* DefaultMarkdownGenerator.generateMarkdown: markdown is rawMarkdown after
\* line 190; convertLinksToRefs is called when citations are asked for and
\* control reaches line 195
CallGenerateMarkdown ==
    /\ pc = "generate"
    /\ markdown' = IF build = "sync" THEN CleanedRawMarkdown(baseUrl, html, fault) ELSE markdown
    /\ citeOut' = IF build = "sync" /\ citations /\ fault # "citations"
                  THEN convertLinksToRefs(markdown', baseUrl, lastIndex)
                  ELSE citeOut
    /\ lastIndex' = citeOut'.lastIndex
    /\ mdOut' = generateMarkdown(build, markdown', citations, fault, citeOut')
    /\ parseCalls' = IF html = "" \/ (build = "sync" /\ fault = "serializer")
                     THEN parseCalls ELSE parseCalls + 1
    /\ pc' = "generated"
    /\ UNCHANGED <<sideVars, baseUrl, citePc, urlVars, filterData, build, citations, fault, calls, thrown, history>>

-----------------------------------------------------------------------------
(* Specifications *)

\* the citation rewriter is not exercised
CiteIdle ==
    /\ markdown = ""
    /\ baseUrl = ""
    /\ lastIndex = 0
    /\ citePc = "off"
    /\ citeOut = NoCiteOut

\* what every filter run starts from
FilterFresh ==
    /\ dom = <<BodyNode>>
    /\ stack = <<>>
    /\ fragments = <<>>
    /\ pass = 1
    /\ firstOut = <<>>
    /\ log = <<>>
    /\ scored = <<>>
    /\ processed = FALSE

\* the filter is not exercised
FilterIdle ==
    /\ FilterFresh
    /\ api = "none"
    /\ options = NoOptions
    /\ cfg = DefaultFilter
    /\ html = ""
    /\ pc = "off"
    /\ currentHtml = ""

\* new HtmlFilter(...) and the call filterContent(html)
InitFilterContent ==
    /\ api = "filterContent"
    /\ options = NoOptions
    /\ cfg \in DirectFilters
    /\ html \in Htmls
    /\ pc = "call"
    /\ currentHtml = ""

\* HtmlProcessor.from(html, {filter: given}) and the call filter()
InitProcessor ==
    /\ api = "processor"
    /\ options \in { resolveOptions(given) : given \in GivenOptions }
    /\ cfg = createHtmlFilter(options)
    /\ html = ""
    /\ pc = "filter"
    /\ currentHtml \in Htmls

\* no URL resolver is exercised
UrlIdle ==
    /\ urlBase = ""
    /\ urlArg = ""
    /\ urlPc = "off"
    /\ urlOut = NoUrlOut

\* neither the serializer nor the generator is exercised, and nothing fails
RunIdle ==
    /\ build = "sync"
    /\ citations = FALSE
    /\ fault = "none"
    /\ parseCalls = 0
    /\ calls = 0
    /\ thrown = NoError
    /\ mdOut = NoMdOut
    /\ history = <<>>

\* the adapter as constructed, with no call in progress
AdapterFresh ==
    /\ window = 0
    /\ initialized = FALSE
    /\ jsdomAvailable = "null"
    /\ created = 0

AdapterIdle ==
    /\ AdapterFresh
    /\ environment = "node"
    /\ jsdomInstalled = TRUE
    /\ callers = <<>>

\* no page type has been detected and filter() is called without argument
ProcFresh ==
    /\ pageTypeResult = NoLayer
    /\ filterArg = NoLayer

\* the registry as constructed (part_001 lines 535-536)
NoPlugins == [n \in {} |-> n]

NoPluginOut == [kind |-> "none"]

PluginIdle ==
    /\ plugins = NoPlugins
    /\ initializationOrder = <<>>
    /\ pluginOut = NoPluginOut

SideIdle == AdapterIdle /\ ProcFresh /\ PluginIdle

CiteInit ==
    /\ markdown \in Markdowns
    /\ baseUrl \in BaseUrls
    /\ lastIndex = 0
    /\ citePc = "ready"
    /\ citeOut = NoCiteOut
    /\ UrlIdle
    /\ FilterIdle
    /\ RunIdle
    /\ SideIdle

\* convertLinksToRefs runs to its return
CallConvertLinksToRefs ==
    /\ citePc = "ready"
    /\ ~ThrowingMatch(markdown, baseUrl, lastIndex + 1).found
    /\ citeOut' = convertLinksToRefs(markdown, baseUrl, lastIndex)
    /\ lastIndex' = citeOut'.lastIndex
    /\ citePc' = "done"
    /\ history' = Append(history, CallReturned("convertLinksToRefs", <<markdown, baseUrl>>,
                                               <<citeOut'.text, citeOut'.refs>>))
    /\ UNCHANGED <<sideVars, markdown, baseUrl, urlVars, filterVars, build, citations, fault, parseCalls, calls,
                   thrown, mdOut>>

\* convertLinksToRefs leaves its loop by the TypeError of fastUrlJoin (line
\* 37): exec has set LINK_PATTERN.lastIndex to the end of the match in hand
ConvertLinksToRefsThrows ==
    /\ citePc = "ready"
    /\ ThrowingMatch(markdown, baseUrl, lastIndex + 1).found
    /\ lastIndex' = ThrowingMatch(markdown, baseUrl, lastIndex + 1).stop
    /\ thrown' = EndsWithError
    /\ citePc' = "threw"
    /\ history' = Append(history, CallThrew("convertLinksToRefs", <<markdown, baseUrl>>))
    /\ UNCHANGED <<sideVars, markdown, baseUrl, citeOut, urlVars, filterVars, build, citations, fault, parseCalls,
                   calls, mdOut>>

\* the next call of convertLinksToRefs on the same generator
ConvertAgain ==
    /\ citePc \in {"done", "threw"}
    /\ Len(history) < MaxCalls
    /\ markdown' \in ReuseMarkdowns
    /\ baseUrl' \in ReuseBases
    /\ citePc' = "ready"
    /\ UNCHANGED <<sideVars, lastIndex, citeOut, urlVars, filterVars, runVars>>

\* the next call of filterContent on the same HtmlFilter, with the same html
FilterAgain ==
    /\ api = "filterContent"
    /\ pc \in {"done", "threw"}
    /\ Len(history) < MaxCalls
    /\ pc' = "call"
    /\ UNCHANGED <<sideVars, citeVars, urlVars, filterData, runVars>>

CiteNext == CallConvertLinksToRefs

CiteSpec == CiteInit /\ [][CiteNext]_vars

\* a base URL and a candidate, and the call of one of the two resolvers
UrlInit ==
    /\ urlBase \in UrlBases
    /\ urlArg \in UrlCandidates
    /\ urlPc = "ready"
    /\ urlOut = NoUrlOut
    /\ CiteIdle
    /\ FilterIdle
    /\ RunIdle
    /\ SideIdle

CallFastUrlJoin ==
    /\ urlPc = "ready"
    /\ urlOut' = [fn |-> "fastUrlJoin", value |-> fastUrlJoin(urlBase, urlArg)]
    /\ urlPc' = "done"
    /\ UNCHANGED <<sideVars, urlBase, urlArg, citeVars, filterVars, runVars>>

CallResolveUrl ==
    /\ urlPc = "ready"
    /\ urlOut' = [fn |-> "resolveUrl", value |-> resolveUrl(urlBase, urlArg)]
    /\ urlPc' = "done"
    /\ UNCHANGED <<sideVars, urlBase, urlArg, citeVars, filterVars, runVars>>

UrlNext == CallFastUrlJoin \/ CallResolveUrl

UrlSpec == UrlInit /\ [][UrlNext]_vars

-----------------------------------------------------------------------------
(* DOMAdapter (dom-adapter.ts): the window is acquired by the first call.   *)
(* Every exported function is async, so a call runs up to its next await    *)
(* and other calls run in between.                                          *)

\* the exported functions that go through ensureInitialized
AdapterFunctions == {"parseHTML", "getDOMParser", "getDocument", "getNode"}

Callers == 1..MaxCallers

\* a call that has not started; made is the window its createWindow returned,
\* got the window it took its parser, document or Node from
NewCaller(fn) == [fn |-> fn, pc |-> "start", made |-> 0, got |-> 0]

\* BrowserAdapter.isSupported / NodeAdapter.isSupported (lines 82-86, 110-112)
BrowserSupported == environment = "browser"

NodeSupported == environment = "node"

\* ensureInitialized lines 283-295 up to its first await: return at once when
\* initialised; in a browser create the window and set the flag without an
\* await; in Node call NodeAdapter.createWindow, whose loadJSDOM is awaited;
\* otherwise throw 'Unsupported environment'
EnsureInitialized(c) ==
    /\ callers[c].pc = "start"
    /\ IF initialized
       THEN /\ callers' = [callers EXCEPT ![c].pc = "ready"]
            /\ UNCHANGED <<window, initialized, created>>
       ELSE IF BrowserSupported
       THEN /\ created' = created + 1
            /\ window' = created'
            /\ initialized' = TRUE
            /\ callers' = [callers EXCEPT ![c].pc = "ready", ![c].made = created']
       ELSE IF NodeSupported
       THEN /\ callers' = [callers EXCEPT ![c].pc = "loading"]
            /\ UNCHANGED <<window, initialized, created>>
       ELSE /\ callers' = [callers EXCEPT ![c].pc = "failed"]
            /\ UNCHANGED <<window, initialized, created>>
    /\ UNCHANGED <<coreVars, procVars, pluginVars, environment, jsdomInstalled, jsdomAvailable>>

\* NodeAdapter.createWindow lines 119-133 after loadJSDOM settled (lines
\* 135-157): a new JSDOM window, or the fallback window when jsdom is missing
CreateWindow(c) ==
    /\ callers[c].pc = "loading"
    /\ jsdomAvailable' = IF jsdomAvailable = "false" THEN "false"
                         ELSE IF jsdomInstalled THEN "true" ELSE "false"
    /\ created' = created + 1
    /\ callers' = [callers EXCEPT ![c].pc = "created", ![c].made = created']
    /\ UNCHANGED <<coreVars, procVars, pluginVars, environment, jsdomInstalled, window, initialized>>

\* ensureInitialized lines 290 and 295 after the await of createWindow
AssignWindow(c) ==
    /\ callers[c].pc = "created"
    /\ window' = callers[c].made
    /\ initialized' = TRUE
    /\ callers' = [callers EXCEPT ![c].pc = "ready"]
    /\ UNCHANGED <<coreVars, procVars, pluginVars, environment, jsdomInstalled, jsdomAvailable, created>>

\* getDOMParser, getDocument, getNode after the await of ensureInitialized
\* (lines 298-327): throw when the window is null, else take the parser, the
\* document or Node from the window
UseWindow(c) ==
    /\ callers[c].pc = "ready"
    /\ callers' = IF window = 0 THEN [callers EXCEPT ![c].pc = "failed"]
                  ELSE [callers EXCEPT ![c].pc = "done", ![c].got = window]
    /\ UNCHANGED <<coreVars, procVars, pluginVars, environment, jsdomInstalled, window, initialized, jsdomAvailable, created>>

AdapterInit ==
    /\ CiteIdle
    /\ UrlIdle
    /\ FilterIdle
    /\ RunIdle
    /\ ProcFresh
    /\ PluginIdle
    /\ AdapterFresh
    /\ environment \in {"browser", "node", "unknown"}
    /\ jsdomInstalled \in IF environment = "node" THEN BOOLEAN ELSE {FALSE}
    /\ callers \in [Callers -> {NewCaller(fn) : fn \in AdapterFunctions}]

AdapterNext ==
    \E c \in Callers :
        \/ EnsureInitialized(c)
        \/ CreateWindow(c)
        \/ AssignWindow(c)
        \/ UseWindow(c)

AdapterSpec == AdapterInit /\ [][AdapterNext]_vars

-----------------------------------------------------------------------------
(* PluginRegistry (part_001 lines 534-709) *)

\* new PluginError(message, pluginName, cause) (part_001 lines 481-486)
PluginError(message, pluginName, cause) ==
    [name |-> "PluginError", code |-> "PLUGIN_ERROR", message |-> message,
     pluginName |-> pluginName, cause |-> cause]

\* what a hook or a transformation of a plugin does when called:
\*   "none"    the plugin has no such function
\*   "ok"      returns undefined
\*   "append"  returns the content followed by the plugin's name
\*   "short"   returns the content followed by the name, throws an Error when
\*             the content has more than one character
\*   "number"  returns a number
\*   "throws"  throws an Error
\*   "throwsText" throws a string
HookError == [name |-> "Error", code |-> "", message |-> "hook failed", cause |-> <<>>]

\* the plugins handed to register; two of them have the same name
PluginCases ==
    { [name |-> "a", init |-> "ok", destroy |-> "none", filter |-> "append", convert |-> "throws"],
      [name |-> "b", init |-> "none", destroy |-> "throws", filter |-> "throws", convert |-> "append"],
      [name |-> "c", init |-> "throws", destroy |-> "none", filter |-> "append", convert |-> "append"],
      [name |-> "a", init |-> "none", destroy |-> "ok", filter |-> "number", convert |-> "short"],
      [name |-> "d", init |-> "throwsText", destroy |-> "none", filter |-> "none", convert |-> "none"],
      [name |-> "e", init |-> "none", destroy |-> "throwsText", filter |-> "short", convert |-> "none"] }

PluginNames == { p.name : p \in PluginCases } \cup {"z"}

PluginInputs == {"", "x"}

HookThrows(hook) == hook \in {"throws", "throwsText"}

\* error instanceof Error ? error.message : String(error)
HookErrorMessage(hook) == IF hook = "throws" THEN HookError.message ELSE "text"

\* error instanceof Error ? error : undefined
HookErrorCause(hook) == IF hook = "throws" THEN <<HookError>> ELSE <<>>

\* the call plugin.filter(result, context) or plugin.convert(result, context)
Transformed(how, name, content) ==
    CASE how = "append" -> [kind |-> "string", value |-> content \o name]
      [] how = "short"  -> IF Len(content) > 1 THEN [kind |-> "threw", value |-> ""]
                           ELSE [kind |-> "string", value |-> content \o name]
      [] how = "number" -> [kind |-> "number", value |-> ""]
      [] OTHER          -> [kind |-> "threw", value |-> ""]

\* the loop of applyFilterPlugins / applyConvertPlugins that stops at the
\* first plugin that fails
RECURSIVE applyPluginsAborting(_, _, _, _)
applyPluginsAborting(order, registered, field, result) ==
    IF order = <<>> THEN result
    ELSE IF Head(order) \notin DOMAIN registered \/ registered[Head(order)][field] = "none"
    THEN applyPluginsAborting(Tail(order), registered, field, result)
    ELSE IF Transformed(registered[Head(order)][field], Head(order), result).kind = "string"
    THEN applyPluginsAborting(Tail(order), registered, field,
                              Transformed(registered[Head(order)][field], Head(order), result).value)
    ELSE result

\* the loop of applyFilterPlugins (lines 643-663) and applyConvertPlugins
\* (lines 671-691) over the names left in order; field is "filter" or "convert"
RECURSIVE applyPlugins(_, _, _, _)
applyPlugins(order, registered, field, result) ==
    IF order = <<>> THEN result
    ELSE IF Head(order) \notin DOMAIN registered \/ registered[Head(order)][field] = "none"
    THEN applyPlugins(Tail(order), registered, field, result)
    ELSE IF Transformed(registered[Head(order)][field], Head(order), result).kind = "string"
    THEN applyPlugins(Tail(order), registered, field,
                      Transformed(registered[Head(order)][field], Head(order), result).value)
    ELSE applyPlugins(Tail(order), registered, field, result)

\* this.plugins.delete(name)
WithoutPlugin(registered, name) == [n \in DOMAIN registered \ {name} |-> registered[n]]

\* this.plugins.set(plugin.name, plugin)
WithPlugin(registered, plugin) ==
    [n \in DOMAIN registered \cup {plugin.name} |->
        IF n = plugin.name THEN plugin ELSE registered[n]]

\* initializationOrder.splice(indexOf(name), 1)
WithoutName(order, name) ==
    IF \E i \in 1..Len(order) : order[i] = name
    THEN SubSeq(order, 1, (CHOOSE i \in 1..Len(order) :
                               order[i] = name /\ \A j \in 1..(i - 1) : order[j] # name) - 1)
         \o SubSeq(order, (CHOOSE i \in 1..Len(order) :
                               order[i] = name /\ \A j \in 1..(i - 1) : order[j] # name) + 1, Len(order))
    ELSE order

PluginCallsLeft == Len(history) < MaxPluginOps

\* register that records the name before it calls init
RegisterBeforeInit(plugin) ==
    /\ PluginCallsLeft
    /\ IF plugin.name \in DOMAIN plugins
       THEN /\ pluginOut' = [kind |-> "threw", error |->
                   PluginError("Plugin with name " \o plugin.name \o " is already registered",
                               plugin.name, <<>>)]
            /\ UNCHANGED <<plugins, initializationOrder>>
       ELSE IF HookThrows(plugin.init)
       THEN /\ pluginOut' = [kind |-> "threw", error |->
                   PluginError("Failed to initialize plugin " \o plugin.name \o ": "
                                  \o HookErrorMessage(plugin.init),
                               plugin.name, HookErrorCause(plugin.init))]
            /\ initializationOrder' = Append(initializationOrder, plugin.name)
            /\ UNCHANGED plugins
       ELSE /\ plugins' = WithPlugin(plugins, plugin)
            /\ initializationOrder' = Append(initializationOrder, plugin.name)
            /\ pluginOut' = [kind |-> "returned", value |-> ""]
    /\ history' = Append(history, IF pluginOut'.kind = "threw" THEN CallThrew("register", <<plugin>>)
                                  ELSE CallReturned("register", <<plugin>>, <<>>))
    /\ UNCHANGED <<adapterVars, procVars, citeVars, urlVars, filterVars, build, citations, fault,
                   parseCalls, calls, thrown, mdOut>>

\* register (lines 542-568)
Register(plugin) ==
    /\ PluginCallsLeft
    /\ IF plugin.name \in DOMAIN plugins
       THEN /\ pluginOut' = [kind |-> "threw", error |->
                   PluginError("Plugin with name " \o plugin.name \o " is already registered",
                               plugin.name, <<>>)]
            /\ UNCHANGED <<plugins, initializationOrder>>
       ELSE IF HookThrows(plugin.init)
       THEN /\ pluginOut' = [kind |-> "threw", error |->
                   PluginError("Failed to initialize plugin " \o plugin.name \o ": "
                                  \o HookErrorMessage(plugin.init),
                               plugin.name, HookErrorCause(plugin.init))]
            /\ UNCHANGED <<plugins, initializationOrder>>
       ELSE /\ plugins' = WithPlugin(plugins, plugin)
            /\ initializationOrder' = Append(initializationOrder, plugin.name)
            /\ pluginOut' = [kind |-> "returned", value |-> ""]
    /\ history' = Append(history, IF pluginOut'.kind = "threw" THEN CallThrew("register", <<plugin>>)
                                  ELSE CallReturned("register", <<plugin>>, <<>>))
    /\ UNCHANGED <<adapterVars, procVars, citeVars, urlVars, filterVars, build, citations, fault,
                   parseCalls, calls, thrown, mdOut>>

\* unregister (lines 574-600) as a function of the registry: what it leaves
\* and how it ends
Unregistered(registered, order, name) ==
    IF name \notin DOMAIN registered
    THEN [plugins |-> registered, order |-> order,
          out |-> [kind |-> "threw", error |->
                      PluginError("Plugin " \o name \o " is not registered", name, <<>>)]]
    ELSE IF HookThrows(registered[name].destroy)
    THEN [plugins |-> registered, order |-> order,
          out |-> [kind |-> "threw", error |->
                      PluginError("Failed to destroy plugin " \o name \o ": "
                                     \o HookErrorMessage(registered[name].destroy),
                                  name, HookErrorCause(registered[name].destroy))]]
    ELSE [plugins |-> WithoutPlugin(registered, name), order |-> WithoutName(order, name),
          out |-> [kind |-> "returned", value |-> ""]]

Unregister(name) ==
    /\ PluginCallsLeft
    /\ plugins' = Unregistered(plugins, initializationOrder, name).plugins
    /\ initializationOrder' = Unregistered(plugins, initializationOrder, name).order
    /\ pluginOut' = Unregistered(plugins, initializationOrder, name).out
    /\ history' = Append(history, IF pluginOut'.kind = "threw" THEN CallThrew("unregister", <<name>>)
                                  ELSE CallReturned("unregister", <<name>>, <<>>))
    /\ UNCHANGED <<adapterVars, procVars, citeVars, urlVars, filterVars, build, citations, fault,
                   parseCalls, calls, thrown, mdOut>>

\* the loop of clear (lines 698-705) over the names of the reversed snapshot:
\* the registry it leaves, the errors of unregister being caught
RECURSIVE ClearLoop(_, _, _)
ClearLoop(names, registered, order) ==
    IF names = <<>> THEN [plugins |-> registered, order |-> order]
    ELSE ClearLoop(Tail(names), Unregistered(registered, order, Head(names)).plugins,
                   Unregistered(registered, order, Head(names)).order)

Reversed(s) == [i \in 1..Len(s) |-> s[Len(s) + 1 - i]]

\* this.plugins.clear()
WithoutAll(registered) == [n \in {} |-> registered[n]]

\* clear (lines 696-709): the loop, then plugins.clear() and length = 0
Clear ==
    /\ PluginCallsLeft
    /\ plugins' = WithoutAll(ClearLoop(Reversed(initializationOrder), plugins, initializationOrder).plugins)
    /\ initializationOrder' =
          SubSeq(ClearLoop(Reversed(initializationOrder), plugins, initializationOrder).order, 1, 0)
    /\ pluginOut' = [kind |-> "returned", value |-> ""]
    /\ history' = Append(history, CallReturned("clear", <<>>, <<>>))
    /\ UNCHANGED <<adapterVars, procVars, citeVars, urlVars, filterVars, build, citations, fault,
                   parseCalls, calls, thrown, mdOut>>

\* applyFilterPlugins (lines 643-663)
ApplyFilterPlugins(content) ==
    /\ PluginCallsLeft
    /\ pluginOut' = [kind |-> "returned",
                     value |-> applyPlugins(initializationOrder, plugins, "filter", content)]
    /\ history' = Append(history, CallReturned("applyFilterPlugins", <<content>>, <<pluginOut'.value>>))
    /\ UNCHANGED <<adapterVars, procVars, plugins, initializationOrder, citeVars, urlVars, filterVars,
                   build, citations, fault, parseCalls, calls, thrown, mdOut>>

\* applyConvertPlugins (lines 671-691)
ApplyConvertPlugins(content) ==
    /\ PluginCallsLeft
    /\ pluginOut' = [kind |-> "returned",
                     value |-> applyPlugins(initializationOrder, plugins, "convert", content)]
    /\ history' = Append(history, CallReturned("applyConvertPlugins", <<content>>, <<pluginOut'.value>>))
    /\ UNCHANGED <<adapterVars, procVars, plugins, initializationOrder, citeVars, urlVars, filterVars,
                   build, citations, fault, parseCalls, calls, thrown, mdOut>>

\* new PluginRegistry()
PluginInit ==
    /\ CiteIdle
    /\ UrlIdle
    /\ FilterIdle
    /\ RunIdle
    /\ AdapterIdle
    /\ ProcFresh
    /\ PluginIdle

PluginNext ==
    \/ \E plugin \in PluginCases : Register(plugin)
    \/ \E name \in PluginNames : Unregister(name)
    \/ Clear
    \/ \E content \in PluginInputs : ApplyFilterPlugins(content)
    \/ \E content \in PluginInputs : ApplyConvertPlugins(content)

PluginSpec == PluginInit /\ [][PluginNext]_vars

-----------------------------------------------------------------------------
(* HtmlProcessor: the operations called one after another on one processor *)

\* no operation of the processor is in progress
ProcIdle == api = "processor" /\ pc \in {"idle", "done", "threw"}

\* the operations called so far (filterContent is called by filter)
ProcOps == Len(SelectSeq(history, LAMBDA e : e.fn \notin {"new", "filterContent"}))

\* the methods that assign no field of the processor: toMarkdown (lines
\* 520-575), toText (581-590), toArray (596-608), toString (614-616)
ReadOnlyMethods == {"toMarkdown", "toText", "toArray", "toString"}

\* withBaseUrl (lines 427-431)
WithBaseUrl(url) ==
    /\ ProcIdle
    /\ ProcOps < MaxOps
    /\ baseUrl' = url
    /\ history' = Append(history, CallReturned("withBaseUrl", <<url>>, <<>>))
    /\ UNCHANGED <<sideVars, markdown, lastIndex, citePc, citeOut, urlVars, filterVars,
                   build, citations, fault, parseCalls, calls, thrown, mdOut>>

\* withOptions (lines 438-458): merge, recreate the filter, reset processed
WithOptions(layer) ==
    /\ ProcIdle
    /\ ProcOps < MaxOps
    /\ options' = Spread(options, layer)
    /\ cfg' = createHtmlFilter(options')
    /\ processed' = FALSE
    /\ history' = Append(history, CallReturned("withOptions", <<layer>>, <<>>))
    /\ UNCHANGED <<sideVars, citeVars, urlVars, api, html, dom, stack, fragments, pass, firstOut,
                   log, scored, currentHtml, pc,
                   build, citations, fault, parseCalls, calls, thrown, mdOut>>

\* withAutoDetection (lines 788-807): keep the detection result and spread
\* its filter options over options.filter
WithAutoDetection(result) ==
    /\ ProcIdle
    /\ ProcOps < MaxOps
    /\ pageTypeResult' = result
    /\ options' = Spread(options, result)
    /\ history' = Append(history, CallReturned("withAutoDetection", <<>>, <<>>))
    /\ UNCHANGED <<adapterVars, pluginVars, filterArg, citeVars, urlVars, api, cfg, html, dom, stack, fragments,
                   pass, firstOut, log, scored, currentHtml, processed, pc,
                   build, citations, fault, parseCalls, calls, thrown, mdOut>>

\* filter(options) is called (line 465)
CallFilter(layer) ==
    /\ ProcIdle
    /\ ProcOps < MaxOps
    /\ filterArg' = layer
    /\ pc' = "filter"
    /\ UNCHANGED <<adapterVars, pluginVars, pageTypeResult, citeVars, urlVars, filterData, runVars>>

\* a method that makes its value from currentHtml and assigns no field
ReadOnlyCallMarkingProcessed(fn) ==
    /\ ProcIdle
    /\ ProcOps < MaxOps
    /\ processed' = TRUE
    /\ history' = Append(history, CallReturned(fn, <<>>, <<>>))
    /\ UNCHANGED <<sideVars, citeVars, urlVars, api, options, cfg, html, dom, stack, fragments, pass,
                   firstOut, log, scored, currentHtml, pc,
                   build, citations, fault, parseCalls, calls, thrown, mdOut>>

\* toMarkdown, toText, toArray or toString is called and returns
ReadOnlyCall(fn) ==
    /\ ProcIdle
    /\ ProcOps < MaxOps
    /\ history' = Append(history, CallReturned(fn, <<>>, <<>>))
    /\ UNCHANGED <<sideVars, citeVars, urlVars, filterVars,
                   build, citations, fault, parseCalls, calls, thrown, mdOut>>

\* HtmlProcessor.from(html, {preset, filter: given})
ProcInit ==
    /\ AdapterIdle
    /\ PluginIdle
    /\ ProcFresh
    /\ CiteIdle
    /\ UrlIdle
    /\ FilterFresh
    /\ api = "processor"
    /\ \E given \in ProcGiven :
           /\ options = resolveOptions(given)
           /\ history = <<CallReturned("new", <<given>>, <<>>)>>
    /\ cfg = createHtmlFilter(options)
    /\ html = ""
    /\ pc = "idle"
    /\ currentHtml \in {"", "<article><p>" \o Sentence \o "</p></article>"}
    /\ build = "sync"
    /\ citations = FALSE
    /\ fault \in {"none", "filter"}
    /\ parseCalls = 0
    /\ calls = 0
    /\ thrown = NoError
    /\ mdOut = NoMdOut

ProcNext ==
    \/ WithBaseUrl("http://h/d/")
    \/ \E layer \in CallLayers : WithOptions(layer)
    \/ \E result \in Detections : WithAutoDetection(result)
    \/ \E layer \in CallLayers : CallFilter(layer)
    \/ \E fn \in ReadOnlyMethods : ReadOnlyCall(fn)
    \/ ProcFilterCall
    \/ FilterContentCall
    \/ FilterContentThrows
    \/ PruneVisit
    \/ PruneChild
    \/ PruneLeave
    \/ Collect
    \/ ProcFilterReturn

ProcSpec == ProcInit /\ [][ProcNext]_vars

\* one generator or one HtmlFilter on which several calls are made
ReuseInit ==
    /\ SideIdle
    /\ UrlIdle
    /\ FilterFresh
    /\ build = "sync"
    /\ citations = FALSE
    /\ parseCalls = 0
    /\ calls = 0
    /\ thrown = NoError
    /\ mdOut = NoMdOut
    /\ history = <<>>
    /\ \/ /\ markdown \in ReuseMarkdowns
          /\ baseUrl \in ReuseBases
          /\ lastIndex = 0
          /\ citePc = "ready"
          /\ citeOut = NoCiteOut
          /\ fault = "none"
          /\ api = "none"
          /\ options = NoOptions
          /\ cfg = DefaultFilter
          /\ html = ""
          /\ pc = "off"
          /\ currentHtml = ""
       \/ /\ CiteIdle
          /\ fault \in {"none", "filter"}
          /\ api = "filterContent"
          /\ options = NoOptions
          /\ cfg \in DirectFilters
          /\ html \in {""} \cup Blocks
          /\ pc = "call"
          /\ currentHtml = ""

ReuseNext ==
    \/ CallConvertLinksToRefs
    \/ ConvertLinksToRefsThrows
    \/ ConvertAgain
    \/ FilterContentCall
    \/ FilterContentThrows
    \/ PruneVisit
    \/ PruneChild
    \/ PruneLeave
    \/ Collect
    \/ FilterAgain

ReuseSpec == ReuseInit /\ [][ReuseNext]_vars

\* a run of the filter: DOM operations may fail in it or not
InitFilterRun ==
    /\ CiteIdle
    /\ InitFilterContent \/ InitProcessor
    /\ build = "sync"
    /\ citations = FALSE
    /\ fault \in {"none", "filter"}

\* new CustomHtml2Text(baseUrl) and the call handle(html)
InitHandle ==
    /\ api = "handle"
    /\ pc = "handle"
    /\ build \in Builds
    /\ citations = FALSE
    /\ fault = "none"

\* new DefaultMarkdownGenerator() and the call
\* generateMarkdown(html, baseUrl, {}, null, citations)
InitGenerateMarkdown ==
    /\ api = "generateMarkdown"
    /\ pc = "generate"
    /\ build \in Builds
    /\ citations \in BOOLEAN
    /\ fault \in {"none", "serializer", "citations"}

\* what a run of the serializer or the generator starts from
InitMarkdownRun ==
    /\ InitHandle \/ InitGenerateMarkdown
    /\ html \in MdHtmls
    /\ baseUrl \in {"", "http://h/d/"}
    /\ markdown = ""
    /\ lastIndex = 0
    /\ citePc = "off"
    /\ citeOut = NoCiteOut
    /\ options = NoOptions
    /\ cfg = DefaultFilter
    /\ currentHtml = ""

Init ==
    /\ SideIdle
    /\ UrlIdle
    /\ FilterFresh
    /\ parseCalls = 0
    /\ calls = 0
    /\ thrown = NoError
    /\ mdOut = NoMdOut
    /\ history = <<>>
    /\ InitFilterRun \/ InitMarkdownRun

Next ==
    \/ ProcFilterCall
    \/ FilterContentCall
    \/ FilterContentThrows
    \/ PruneVisit
    \/ PruneChild
    \/ PruneLeave
    \/ Collect
    \/ ProcFilterReturn
    \/ Refilter
    \/ CallHandle
    \/ CallGenerateMarkdown

Spec == Init /\ [][Next]_vars

-----------------------------------------------------------------------------
(* What the claims about the citation rewriter speak of *)

\* the link and image spans of the input, left to right
RECURSIVE MatchesFrom(_, _)
MatchesFrom(md, from) ==
    LET m == LinkPatternExec(md, from)
    IN  IF ~m.found THEN <<>> ELSE <<m>> \o MatchesFrom(md, m.stop + 1)

InputSpans == MatchesFrom(markdown, 1)

\* the URL a span refers to: resolved against baseUrl unless already absolute
\* or protocol-relative
SpanResolved(m) ==
    IF baseUrl = "" \/ IsAbsoluteScheme(m.url) \/ StartsWith(m.url, "//") THEN m.url
    ELSE fastUrlJoin(baseUrl, m.url)

\* the resolved URLs of the spans sp, in order
ResolvedOf(sp) == [k \in 1..Len(sp) |-> SpanResolved(sp[k])]

\* position of the first occurrence of R[k] in R
FirstWith(R, k) == CHOOSE j \in 1..k : R[j] = R[k] /\ \A i \in 1..(j - 1) : R[i] # R[k]

\* the id each span must carry: the number of distinct resolved URLs seen up
\* to the first occurrence of its own
ExpectedIds(R) == [k \in 1..Len(R) |-> Cardinality({R[j] : j \in 1..FirstWith(R, k)})]

\* a declarative reading of "the markdown contains a link or image span"
HasSpan(md) ==
    \E i \in 1..Len(md) : \E j \in (i + 2)..Len(md) : \E l \in (j + 3)..Len(md) :
        /\ CharAt(md, i) = "[" /\ CharAt(md, j) = "]"
        /\ CharAt(md, j + 1) = "(" /\ CharAt(md, l) = ")"
        /\ \A x \in (i + 1)..(j - 1) : CharAt(md, x) # "]"
        /\ \A x \in (j + 2)..(l - 1) : CharAt(md, x) # ")"

\* C1: ids are 1, 2, 3, ... in order of first appearance of each distinct
\* resolved URL, and a repeated resolved URL reuses the id of its first
\* occurrence (an id never maps to two URLs, a URL never gets two ids).
C1_SequentialStableIds ==
    citePc = "done" =>
        LET sp  == InputSpans
            R   == ResolvedOf(sp)
            X   == ExpectedIds(R)
            ids == citeOut.ids
        IN  /\ Len(ids) = Len(sp)
            /\ \A k \in 1..Len(sp) : ids[k] = X[k]
            /\ {ids[k] : k \in 1..Len(sp)} = 1..Cardinality({R[k] : k \in 1..Len(sp)})
            /\ \A j, k \in 1..Len(sp) : (ids[j] = ids[k]) <=> (R[j] = R[k])

C1_Witness ==
    /\ citePc = "done"
    /\ Len(InputSpans) = 3
    /\ citeOut.ids = <<1, 2, 1>>

\* the text that stands in place of a span according to the claim as stated:
\* the span's text followed by the marker
StatedReplacement(m, url, id) ==
    IF m.image THEN "![" \o m.text \o Marker(id) \o "]" ELSE m.text \o Marker(id)

\* the same with the display text the rewriter documents: the trimmed text, or
\* the resolved URL when the text is blank
DisplayReplacement(m, url, id) ==
    LET shown == IF Trim(m.text) # "" THEN Trim(m.text) ELSE url
    IN  IF m.image THEN "![" \o shown \o Marker(id) \o "]" ELSE shown \o Marker(id)

\* the input with every span from the k-th on replaced in place
RECURSIVE Rebuilt(_, _, _, _, _, _)
Rebuilt(Rep(_, _, _), sp, R, X, k, from) ==
    IF k > Len(sp) THEN SliceFrom(markdown, from)
    ELSE SubSeq(markdown, from, sp[k].index - 1) \o Rep(sp[k], R[k], X[k])
           \o Rebuilt(Rep, sp, R, X, k + 1, sp[k].stop + 1)

\* the references block: one line per id, in ascending order, each carrying
\* the resolved URL of the spans with that id
ReferencesAsClaimed(R, X) ==
    LET lines   == SplitStr(citeOut.refs, "\n")
        For(n)  == {i \in 1..Len(lines) : StartsWith(lines[i], Marker(n) \o " ")}
        nUrls   == Cardinality({R[k] : k \in 1..Len(R)})
    IN  /\ \A k \in 1..Len(R) :
              /\ Cardinality(For(X[k])) = 1
              /\ \A i \in For(X[k]) : StartsWith(lines[i], Marker(X[k]) \o " " \o R[k])
        /\ Len(R) > 0 =>
              /\ StartsWith(citeOut.refs, ReferencesHeader)
              /\ Len(lines) = 5 + nUrls
              /\ \A n \in 1..nUrls : For(n) = {4 + n}

\* C2 as stated: each span is replaced in place by its text followed by the
\* marker, and the references block has exactly one line per id with the
\* span's resolved URL, in ascending id order under a References heading.
C2_AsStated ==
    citePc = "done" =>
        LET sp == InputSpans
            R  == ResolvedOf(sp)
            X  == ExpectedIds(R)
        IN  /\ citeOut.text = Rebuilt(StatedReplacement, sp, R, X, 1, 1)
            /\ ReferencesAsClaimed(R, X)

\* C2 (amended): each span is replaced in place by its trimmed text, or by
\* its resolved URL when the text is blank, followed by the marker; the
\* references block is as claimed.
C2_DisplayTextAndReferences ==
    citePc = "done" =>
        LET sp == InputSpans
            R  == ResolvedOf(sp)
            X  == ExpectedIds(R)
        IN  /\ citeOut.text = Rebuilt(DisplayReplacement, sp, R, X, 1, 1)
            /\ ReferencesAsClaimed(R, X)

C2_Witness ==
    /\ citePc = "done"
    /\ Len(InputSpans) = 3
    /\ \E k \in 1..3 : InputSpans[k].image
    /\ \E k \in 1..3 : Trim(InputSpans[k].text) = ""
    /\ Len(citeOut.linkMap) = 2

\* C3: deduplication is by resolved URL: with a base URL, spans whose raw URLs
\* differ but resolve to the same URL share one id and one references line;
\* an absolute or protocol-relative URL is used as written.
C3_DedupByResolvedUrl ==
    citePc = "done" =>
        LET sp  == InputSpans
            R   == ResolvedOf(sp)
            ids == citeOut.ids
            lm  == citeOut.linkMap
        IN  /\ Len(ids) = Len(sp)
            /\ \A j, k \in 1..Len(sp) :
                  R[j] = R[k]
                    => /\ ids[j] = ids[k]
                       /\ Cardinality({i \in 1..Len(lm) : lm[i].key = R[k]}) = 1
            /\ \A k \in 1..Len(sp) :
                  (IsAbsoluteScheme(sp[k].url) \/ StartsWith(sp[k].url, "//"))
                    => \E i \in 1..Len(lm) :
                          /\ lm[i].refNum = ids[k]
                          /\ lm[i].key = sp[k].url
                          /\ Contains(citeOut.refs, Marker(ids[k]) \o " " \o sp[k].url)

C3_Witness ==
    /\ citePc = "done"
    /\ baseUrl # ""
    /\ Len(InputSpans) = 3
    /\ InputSpans[1].url # InputSpans[2].url
    /\ ~IsAbsoluteScheme(InputSpans[1].url) /\ ~IsAbsoluteScheme(InputSpans[2].url)
    /\ citeOut.ids = <<1, 1, 2>>
    /\ StartsWith(InputSpans[3].url, "//")

\* C4: a markdown without any link or image span is returned unchanged, with
\* an empty references block.
C4_NoLinksUnchanged ==
    (citePc = "done" /\ ~HasSpan(markdown)) =>
        /\ citeOut.text = markdown
        /\ citeOut.refs = ""

C4_Witness ==
    /\ citePc = "done"
    /\ ~HasSpan(markdown)
    /\ Contains(markdown, "[a]x") /\ Contains(markdown, "x [a]")

-----------------------------------------------------------------------------
(* What the claims about the content filter speak of *)

Concatenated(blocks) == JoinStr(blocks, "")

\* filterContent has returned (for the processor: filter() has returned)
Returned == pc = "done"

BodyDetached == dom[Body].parent = NoParent

ArticleBlock == "<article><p>" \o Sentence \o "</p></article>"

SpecExample == "<div class=\"ad\">x</div>" \o ArticleBlock

\* the markup s holds a start tag of an excluded element
HasExcludedTag(s) == \E i \in 1..Len(ExcludedTags) : Contains(s, "<" \o ExcludedTags[i])

\* the element children of body still attached, found through the parent
\* pointers, in document order (ids follow source order)
AttachedBodyChildren ==
    SelectSeq([k \in 1..Len(dom) |-> k],
              LAMBDA k : dom[k].kind = "elem" /\ dom[k].parent = Body)

SurvivorsWithText ==
    SelectSeq(AttachedBodyChildren, LAMBDA k : Trim(TextContent(dom, k)) # "")

\* html is the serialisation of its own parse: every element is closed
\* explicitly and nothing is dropped or moved by the parser
IsSerialised(h) == InnerHTML(ParseHtml(h), Body) = h

\* the second filtering detached something other than body
PrunedBelowBody == \E i \in 1..Len(log) : log[i].node # Body

-----------------------------------------------------------------------------
(* Claims about the content filter *)

\* C5 (as stated): pruneTree never detaches body itself: the parent guard
\* spares it, and the pruning of its children proceeds.
C5_BodyNeverDetached == dom[Body].parent = HtmlElement

\* C6 (as stated): with the default fixed filter an element carrying a noise
\* class (class "ad") does not appear among the fragments, and an article
\* holding a paragraph of real text is retained; for the example input only
\* the article subtree is returned.
C6_NoiseDiscardedArticleKept ==
    (Returned /\ pass = 1 /\ api = "filterContent" /\ cfg = DefaultFilter) =>
        /\ \A i \in 1..Len(fragments) : ~Contains(fragments[i], "class=\"ad\"")
        /\ (Contains(html, ArticleBlock) =>
               \E i \in 1..Len(fragments) : fragments[i] = ArticleBlock)
        /\ (html = SpecExample => fragments = <<ArticleBlock>>)

\* C7 (as stated): no excluded tag (nav, footer, header, aside, script, style,
\* form, iframe, noscript) is left in any fragment, nor in the HTML that
\* HtmlProcessor.filter() leaves as the current HTML.
C7_NoExcludedTagLeft ==
    Returned =>
        /\ \A i \in 1..Len(fragments) : ~HasExcludedTag(fragments[i])
        /\ (api = "processor" => ~HasExcludedTag(currentHtml))

C9_AsStated == Returned => Len(Concatenated(fragments)) <= Len(html)

\* C9 (amended): when the input is already in serialised form (it equals the
\* serialisation of its parsed body, so no end tag is left for the parser to
\* supply), the total length of the fragments never exceeds the length of the
\* input HTML.
C9_NeverLongerThanSerialisedInput ==
    (Returned /\ IsSerialised(html)) => Len(Concatenated(fragments)) <= Len(html)

C9_Witness ==
    /\ Returned
    /\ pass = 1
    /\ IsSerialised(html)
    /\ fragments # <<>>
    /\ Len(Concatenated(fragments)) < Len(html)

\* C10 (as stated): filtering the output of a filtering changes nothing:
\* filter(filter(h)) = filter(h).
C10_AsStated == (Returned /\ pass = 2) => fragments = firstOut

\* C10 (amended): filtering the output of a filtering returns it unchanged
\* exactly when the second filtering detaches nothing below body; when it does
\* detach an element (elements are scored again, against the already pruned
\* markup), its output is strictly shorter and has no more fragments.
C10_FixedPointUnlessPrunedAgain ==
    (Returned /\ pass = 2) =>
        IF PrunedBelowBody
        THEN /\ Len(Concatenated(fragments)) < Len(Concatenated(firstOut))
             /\ Len(fragments) <= Len(firstOut)
        ELSE fragments = firstOut

C10_Witness ==
    /\ Returned
    /\ pass = 2
    /\ ~BodyDetached
    /\ Len(fragments) = 2
    /\ fragments = firstOut

\* The composite score of the claims, over the denominator 1000 * markup
\* length * text length: the weights are given in hundredths, the tag weight
\* in tenths and the class/id penalty in halves.
ClaimDen(e) ==
    1000 * (IF e.tagLen > 0 THEN e.tagLen ELSE 1) * (IF e.textLen > 0 THEN e.textLen ELSE 1)

ClaimNum(wDensity, wTag, wClassId, wLink, wLength, tagWeight10, e) ==
      10 * wDensity * (IF e.tagLen > 0 THEN e.textLen ELSE 0)
         * (IF e.textLen > 0 THEN e.textLen ELSE 1)
    - 10 * wLink * (IF e.textLen > 0 THEN e.linkTextLen ELSE 0)
         * (IF e.tagLen > 0 THEN e.tagLen ELSE 1)
    + ( wTag * tagWeight10
      + 5 * wClassId * (IF \E w \in NegativeWords : Contains(ClassAndId(dom, e.node), w)
                        THEN -1 ELSE 0)
      + (wLength * (IF e.textLen < 100 THEN e.textLen ELSE 100)) \div 10 )
        * (IF e.tagLen > 0 THEN e.tagLen ELSE 1) * (IF e.textLen > 0 THEN e.textLen ELSE 1)

\* C12 (as stated): the score of every element is density*0.35 +
\* tagWeight*0.25 + classIdPenalty*0.15 - linkDensity*0.15 + lengthScore*0.10
\* over the total weight, the tag weight read from the tag importance table.
C12_AsStated ==
    \A i \in 1..Len(scored) :
        /\ scored[i].den = ClaimDen(scored[i])
        /\ scored[i].num = ClaimNum(35, 25, 15, 15, 10,
                                    TagImportance10(scored[i].tagName), scored[i])

\* C12 (amended): the score of every element is density*0.4 + tagWeight*0.2 +
\* classIdPenalty*0.1 - linkDensity*0.2 + lengthScore*0.1 over the total weight
\* 1.0, the tag weight read from the tagWeights table (0.5 for a tag not in it).
C12_ScoreIsWeightedSum ==
    \A i \in 1..Len(scored) :
        /\ scored[i].den = ClaimDen(scored[i])
        /\ scored[i].num = ClaimNum(40, 20, 10, 20, 10,
                                    TagWeight10(scored[i].tagName), scored[i])

\* an element with link text has been scored, and so has one with a negative
\* class/id word
C12_Witness ==
    /\ \E i \in 1..Len(scored) : scored[i].linkTextLen > 0 /\ scored[i].textLen > 0
    /\ \E i \in 1..Len(scored) :
           \E w \in NegativeWords : Contains(ClassAndId(dom, scored[i].node), w)

\* the scoring step of pruneTree detached the node
RemovedByScore(n) == \E j \in 1..Len(log) : log[j].node = n /\ log[j].why = "score"

\* score < base threshold * tagFactor / 10 * densityFactor / 10, the base
\* threshold in thousandths
ScoreBelow(e, base, tagFactor, densityFactor) ==
    e.num * 10 < (base \div 10) * tagFactor * densityFactor * (e.den \div 1000)

DenseText(e) == e.tagLen > 0 /\ 10 * e.textLen > 4 * e.tagLen

\* C13 (as stated): in fixed mode an element is removed iff its score is below
\* the base threshold; in dynamic mode iff it is below the base threshold times
\* 0.8 when the tag weight that enters the score exceeds 1, and times 0.9 when
\* the text density exceeds 0.4.
C13_AsStated ==
    \A i \in 1..Len(scored) :
        RemovedByScore(scored[i].node) <=>
            IF cfg.thresholdType = "fixed"
            THEN ScoreBelow(scored[i], cfg.threshold, 10, 10)
            ELSE ScoreBelow(scored[i], cfg.threshold,
                            IF TagWeight10(scored[i].tagName) > 10 THEN 8 ELSE 10,
                            IF DenseText(scored[i]) THEN 9 ELSE 10)

\* C13 (amended): as stated, except that the factor 0.8 applies when the tag's
\* entry in the tagImportance table (0.7 for a tag not in it) exceeds 1: that
\* table is not the tagWeights table the score reads.
C13_RemovedIffBelowThreshold ==
    \A i \in 1..Len(scored) :
        RemovedByScore(scored[i].node) <=>
            IF cfg.thresholdType = "fixed"
            THEN ScoreBelow(scored[i], cfg.threshold, 10, 10)
            ELSE ScoreBelow(scored[i], cfg.threshold,
                            IF TagImportance10(scored[i].tagName) > 10 THEN 8 ELSE 10,
                            IF DenseText(scored[i]) THEN 9 ELSE 10)

\* in dynamic mode a p element, important but of tag weight 1.0, was kept
\* with a score between the two thresholds
C13_Witness ==
    /\ cfg.thresholdType = "dynamic"
    /\ \E i \in 1..Len(scored) :
           /\ scored[i].tagName = "p"
           /\ ~RemovedByScore(scored[i].node)
           /\ ScoreBelow(scored[i], cfg.threshold, 10, 9)
    /\ \E i \in 1..Len(scored) :
           scored[i].node # Body /\ RemovedByScore(scored[i].node)

-----------------------------------------------------------------------------
(* Claims about the URL resolvers *)

UrlDone == urlPc = "done"

\* resolving urlArg against urlBase cannot succeed: there is a base, new URL()
\* rejects it, and the candidate is a reference that needs one
ResolutionFails ==
    /\ urlBase # ""
    /\ ~UrlValid(urlBase)
    /\ ~HasScheme(urlArg)
    /\ ~StartsWith(urlArg, "//")

\* C14 (as stated): whenever resolving a candidate against the base fails, the
\* resolver returns the candidate unchanged, for relative and root-relative
\* candidates alike.
C14_AsStated == (UrlDone /\ ResolutionFails) => urlOut.value = urlArg

\* C14 (amended): on a failed resolution the resolver returns the candidate
\* unchanged, except that fastUrlJoin returns a root-relative candidate
\* appended to the base (less one trailing slash of the base).
C14_FailureReturnsCandidateOrJoin ==
    (UrlDone /\ ResolutionFails) =>
        IF urlOut.fn = "fastUrlJoin" /\ StartsWith(urlArg, "/")
        THEN urlOut.value =
                 (IF EndsWith(urlBase, "/") THEN SubSeq(urlBase, 1, Len(urlBase) - 1)
                  ELSE urlBase) \o urlArg
        ELSE urlOut.value = urlArg

\* resolveUrl was given a root-relative candidate and a base that is no URL
C14_Witness ==
    /\ UrlDone
    /\ ResolutionFails
    /\ urlOut.fn = "resolveUrl"
    /\ StartsWith(urlArg, "/")
    /\ urlOut.value = urlArg

\* the pass-through cases of the claim
ClaimedPassThrough(url) ==
    \/ StartsWith(url, "http://") \/ StartsWith(url, "https://")
    \/ StartsWith(url, "mailto:") \/ StartsWith(url, "data:")
    \/ StartsWith(url, "//")

\* C15 (as stated): with a base that is a URL, either resolver returns the
\* candidate unchanged exactly when it starts with http://, https://, mailto:,
\* data: or //; any other candidate, a relative path beginning with the letters
\* http included, comes back resolved against the base.
C15_PassThroughExactlyForSchemes ==
    (UrlDone /\ UrlValid(urlBase)) =>
        /\ (urlOut.value = urlArg) <=> ClaimedPassThrough(urlArg)
        /\ ~ClaimedPassThrough(urlArg) => urlOut.value = NewUrl(urlArg, urlBase).href

-----------------------------------------------------------------------------
(* Claims about the empty input *)

Handled == api = "handle" /\ pc = "handled"

\* C11: on the empty string filterContent returns no fragment,
\* filterContentAsString the empty string and the serializer's handle the
\* empty string, and none of them parses anything.
C11_EmptyInputEmptyOutput ==
    /\ (api = "filterContent" /\ html = "" /\ Returned) =>
           fragments = <<>> /\ (pass = 1 => parseCalls = 0)
    /\ (api = "processor" /\ html = "" /\ pc \in {"joined", "done"}) =>
           JoinStr(fragments, "") = "" /\ (pass = 1 => parseCalls = 0)
    /\ (Handled /\ html = "") => mdOut.text = "" /\ parseCalls = 0

\* handle has returned from the empty string
C11_Witness == Handled /\ html = "" /\ mdOut.text = ""

-----------------------------------------------------------------------------
(* Claims about generateMarkdown *)

Generated == api = "generateMarkdown" /\ pc = "generated"

\* C16 (as stated): generateMarkdown returns a result with all five fields;
\* rawMarkdown is the diagnostic 'Error converting HTML to markdown: ...' when
\* the serializer fails and the serializer's Markdown text when it succeeds.
C16_RawIsTextOrDiagnostic ==
    Generated =>
        /\ mdOut.kind = "result"
        /\ mdOut.rawMarkdown =
               IF fault = "serializer"
               THEN "Error converting HTML to markdown: " \o DomError.message
               ELSE handle(Html2Text(baseUrl), html)

\* citation rewriting was reached and threw
CitationsThrew == build = "sync" /\ citations /\ fault = "citations"

\* C17: if citation rewriting throws during generateMarkdown, the call still
\* returns a result: markdownWithCitations is the raw markdown,
\* referencesMarkdown an error note, and rawMarkdown what it is without the
\* failure.
C17_CitationFailureKeepsRaw ==
    (Generated /\ CitationsThrew) =>
        /\ mdOut.kind = "result"
        /\ mdOut.rawMarkdown = CleanFences(handle(Html2Text(baseUrl), html), 1)
        /\ mdOut.markdownWithCitations = mdOut.rawMarkdown
        /\ StartsWith(mdOut.referencesMarkdown, "\n\nError generating citations: ")
        /\ citeOut = NoCiteOut

\* citation rewriting threw on a markdown that holds a link
C17_Witness ==
    /\ Generated
    /\ CitationsThrew
    /\ Contains(mdOut.rawMarkdown, "](")
    /\ mdOut.markdownWithCitations = mdOut.rawMarkdown

-----------------------------------------------------------------------------
(* Claims about HtmlProcessor.filter *)

\* C18: when filtering throws inside HtmlProcessor.filter(), the call fails
\* with a FilterError of code FILTER_ERROR whose cause is the original error;
\* filterContent was called once, and currentHtml and processed are what they
\* were before the call.
C18_FilterErrorLeavesStateAlone ==
    (api = "processor" /\ pc = "threw") =>
        /\ thrown.name = "FilterError"
        /\ thrown.code = "FILTER_ERROR"
        /\ thrown.cause = <<DomError>>
        /\ calls = 1
        /\ currentHtml = html
        /\ processed = (pass = 2)

\* the second filter() of a processor threw, after the first had changed
\* currentHtml and set processed
C18_Witness ==
    /\ api = "processor"
    /\ pc = "threw"
    /\ pass = 2
    /\ processed
    /\ currentHtml = JoinStr(firstOut, "")

-----------------------------------------------------------------------------
(* Claims about the serializer *)

\* the cell texts of a row as processTable renders them
RECURSIVE RenderedCells(_)
RenderedCells(cells) ==
    IF Len(cells) = 0 THEN <<>>
    ELSE <<EscapePipes(Trim(Head(cells)), 1)>> \o RenderedCells(Tail(cells))

RowLine(cells) == "| " \o JoinStr(RenderedCells(cells), " | ") \o " |\n"

RECURSIVE RowLines(_)
RowLines(rows) == IF Len(rows) = 0 THEN "" ELSE RowLine(Head(rows)) \o RowLines(Tail(rows))

\* header line, separator line, one line for each further row
TableLines(rows, separator) == RowLine(rows[1]) \o separator \o "\n" \o RowLines(Tail(rows))

\* '|---|---|', one '---' for each header cell
CompactSeparator(cells) == "|" \o JoinStr([c \in 1..Len(cells) |-> "---"], "|") \o "|"

\* '| --- | --- |', one '---' for each header cell
SpacedSeparator(cells) == "| " \o JoinStr([c \in 1..Len(cells) |-> "---"], " | ") \o " |"

RECURSIVE Occurrences(_, _, _)
Occurrences(s, sub, i) ==
    IF IndexOfStr(s, sub, i) = 0 THEN 0
    ELSE 1 + Occurrences(s, sub, IndexOfStr(s, sub, i) + 1)

\* the lines of the text handle returned, the trailing line breaks left out
OutLines == SplitStr(TrimEnd(mdOut.text), "\n")

\* C20 (as stated): for an ol or ul the serializer emits one list line for
\* each li descendant in document order; the lines of an ol are numbered
\* 1., 2., ..., n. by one counter over all n li descendants whatever their
\* nesting, the lines of a ul begin with '*'.
C20_OneLinePerItem ==
    (Handled /\ (StartsWith(html, "<ol>") \/ StartsWith(html, "<ul>"))) =>
        /\ Len(OutLines) = Occurrences(html, "<li>", 1)
        /\ \A k \in 1..Len(OutLines) :
               StartsWith(OutLines[k],
                          IF StartsWith(html, "<ol>") THEN ToString(k) \o ". " ELSE "* ")

-----------------------------------------------------------------------------
(* Claims about what the serializer leaves out *)

\* the elements whose content the serializer must not show
UnwantedTags == {"script", "style", "iframe", "noscript", "svg"}

\* n is inside an element whose tag is in tags
RECURSIVE InsideAny(_, _, _)
InsideAny(nodes, n, tags) ==
    IF nodes[n].parent \in {NoParent, HtmlElement} THEN FALSE
    ELSE nodes[nodes[n].parent].tag \in tags \/ InsideAny(nodes, nodes[n].parent, tags)

\* the texts of the comments of a document and of its text nodes inside an
\* unwanted element
HiddenTexts(nodes) ==
    { nodes[n].text : n \in { k \in DOMAIN nodes :
          \/ nodes[k].kind = "comment"
          \/ nodes[k].kind = "text" /\ InsideAny(nodes, k, UnwantedTags) } }

\* the texts of the other text nodes
ShownTexts(nodes) ==
    { nodes[n].text : n \in { k \in DOMAIN nodes :
          nodes[k].kind = "text" /\ ~InsideAny(nodes, k, UnwantedTags) } }

\* the Markdown text the serializer produced in the call, where it ran and its
\* text was kept
SerializerOutputs ==
    IF Handled THEN {mdOut.text}
    ELSE IF Generated /\ build = "sync" /\ fault # "serializer" THEN {mdOut.rawMarkdown}
    ELSE {}

\* C21: the serializer output holds no text from inside a script, style,
\* iframe, noscript or svg element or from a comment, whichever handler
\* (recursive rendering or flattened textContent) renders the enclosing
\* element: a hidden text that no shown text node and no attribute holds
\* does not occur in the output.
C21_NoHiddenText ==
    \A out \in SerializerOutputs :
        \A t \in HiddenTexts(ParseHtml(html)) :
            (t # "" /\ \A v \in ShownTexts(ParseHtml(html)) : ~Contains(v, t)) =>
                ~Contains(out, t)

\* a heading rendered from its textContent and a paragraph rendered child by
\* child have been serialized, both holding a script or style and a comment
C21_Witness ==
    /\ Handled
    /\ "zq" \in HiddenTexts(ParseHtml(html))
    /\ "zc" \in HiddenTexts(ParseHtml(html))
    /\ Contains(html, "<h2>T<script>")
    /\ Contains(mdOut.text, "## T")
    /\ Contains(mdOut.text, "uv")

-----------------------------------------------------------------------------
(* Claims about calls made one after another on the same instance *)

\* what the call of history entry e returns on an instance no call was made on
FreshValue(e) ==
    <<convertLinksToRefs(e.args[1], e.args[2], 0).text,
      convertLinksToRefs(e.args[1], e.args[2], 0).refs>>

\* C22: the citation rewriter and the content filter keep no state between
\* calls: after any earlier calls on the same instance, also ones that threw,
\* calls with the same arguments return the same result, the rewriter returns
\* what it returns on a new generator (ids from 1), and it scans from the
\* first character.
C22_NoStateBetweenCalls ==
    /\ \A i \in DOMAIN history : \A j \in DOMAIN history :
           (/\ history[i].fn = history[j].fn
            /\ history[i].args = history[j].args
            /\ history[i].kind = "returned"
            /\ history[j].kind = "returned") => history[i].value = history[j].value
    /\ \A i \in DOMAIN history :
           (history[i].fn = "convertLinksToRefs" /\ history[i].kind = "returned") =>
               history[i].value = FreshValue(history[i])
    /\ citePc = "ready" => lastIndex = 0

-----------------------------------------------------------------------------
(* Claims about the DOM adapter *)

\* C23: acquiring the DOM environment is a one-time initialisation: under
\* any interleaving of concurrent parseHTML, getDOMParser, getDocument and
\* getNode calls the window is created at most once, it is never replaced
\* after a call has obtained a parser from it, and whenever the adapter is
\* marked initialised its window is not null.
C23_WindowAcquiredOnce ==
    /\ created <= 1
    /\ \A c \in DOMAIN callers : callers[c].pc = "done" => callers[c].got = window
    /\ initialized => window # 0

-----------------------------------------------------------------------------
(* Claims about the options of HtmlProcessor *)

OptionKeys == {"threshold", "strategy", "ratio", "minWords"}

\* the calls in which the caller supplied a value for key k
Supplied(k) ==
    { i \in DOMAIN history :
        /\ history[i].fn \in {"new", "withOptions", "filter"}
        /\ k \in history[i].args[1].keys }

\* the value of key k by the precedence defaults < preset or detection <
\* explicit: the value supplied last by the caller, else the detected one,
\* else the preset's, else the default
ValueByPrecedence(k) ==
    IF Supplied(k) # {}
    THEN history[CHOOSE i \in Supplied(k) : \A j \in Supplied(k) : j <= i].args[1][k]
    ELSE IF k \in pageTypeResult.keys THEN pageTypeResult[k]
    ELSE IF history[1].args[1].preset # "" THEN PresetFilter(history[1].args[1].preset)[k]
    ELSE FilterDefaults[k]

OptionsByPrecedence ==
    [threshold |-> ValueByPrecedence("threshold"),
     strategy  |-> ValueByPrecedence("strategy"),
     ratio     |-> ValueByPrecedence("ratio"),
     minWords  |-> ValueByPrecedence("minWords")]

\* filter() has just returned on a processor
FilterReturned ==
    /\ api = "processor"
    /\ pc = "done"
    /\ history[Len(history)].fn = "filter"

\* C24: the option layers have the precedence defaults < preset < explicit
\* call options: for every filter option key the value HtmlProcessor builds
\* its HtmlFilter from is the one the caller supplied (constructor options,
\* withOptions or the filter argument) when there is one, else the preset's
\* or detected one, else the default.
C24_ExplicitOptionsWin ==
    FilterReturned =>
        /\ options = OptionsByPrecedence
        /\ cfg = createHtmlFilter(OptionsByPrecedence)

\* C25: the HtmlFilter that HtmlProcessor constructs takes its policy from
\* the filter options as documented: its minimum word count is minWords, its
\* threshold mode is strategy and its score threshold is the configured
\* threshold (in thousandths).
C25_PolicyFromFilterOptions ==
    FilterReturned =>
        /\ cfg.minWordCount = options.minWords
        /\ cfg.thresholdType = options.strategy
        /\ cfg.threshold = 1000 * options.threshold

\* the filter() calls that returned, and the withOptions calls
FiltersReturned == { i \in DOMAIN history : history[i].fn = "filter" /\ history[i].kind = "returned" }

OptionsChanged == { i \in DOMAIN history : history[i].fn = "withOptions" }

\* C26: over any sequence of HtmlProcessor operations, isProcessed() is true
\* exactly when a filter() call has returned since construction or since the
\* most recent withOptions(): withBaseUrl, toMarkdown, toText, toArray,
\* toString, withAutoDetection and a failed filter() leave it as it is.
C26_ProcessedIffFilteredSince ==
    ProcIdle =>
        (processed <=> \E i \in FiltersReturned : \A j \in OptionsChanged : j < i)

\* filter() returned and a later withOptions reset the flag, or a later
\* filter() failed and left it set
C26_Witness ==
    /\ ProcIdle
    /\ \E i \in FiltersReturned :
          \/ ~processed /\ \E j \in OptionsChanged : i < j
          \/ processed /\ \E j \in DOMAIN history : i < j /\ history[j].kind = "threw"

-----------------------------------------------------------------------------
(* Claims about the traversal of pruneTree *)

\* n is in the document: its chain of parents ends at the html element
RECURSIVE Attached(_, _)
Attached(nodes, n) ==
    IF nodes[n].parent = HtmlElement THEN TRUE
    ELSE IF nodes[n].parent = NoParent THEN FALSE
    ELSE Attached(nodes, nodes[n].parent)

ScoredAt(n) == { i \in 1..Len(scored) : scored[i].node = n }

LoggedAt(n) == { i \in 1..Len(log) : log[i].node = n }

Touched(n) == ScoredAt(n) # {} \/ LoggedAt(n) # {}

\* the elements below n
Below(nodes, n) ==
    { d \in 1..Len(nodes) : d # n /\ nodes[d].kind = "elem" /\ \E k \in 1..Len(Subtree(nodes, n)) : Subtree(nodes, n)[k] = d }

\* a step that scores node n: it was not scored before, it is in the
\* document, and nothing below it was scored or detached
ScoresFirst(n) ==
    /\ ScoredAt(n) = {}
    /\ Attached(dom, n)
    /\ \A d \in Below(dom, n) : ~Touched(d)

\* a step that returns from a node whose children were visited: each child of
\* the snapshot was scored exactly once
ChildrenScoredOnce(f) ==
    \A k \in 1..Len(f.children) : Cardinality(ScoredAt(f.children[k])) = 1

PruneStepInOrder ==
    /\ Len(scored') = Len(scored) + 1 => ScoresFirst(scored'[Len(scored')].node)
    /\ Len(log') = Len(log) + 1 => Attached(dom, log'[Len(log')].node)
    /\ (pc = "prune" /\ Len(stack') < Len(stack) /\ Top.i >= 1) => ChildrenScoredOnce(Top)

\* C27: pruning is a single pre-order pass: an element is scored at most once
\* and before anything below it is scored or detached; nothing inside a
\* detached subtree is scored or detached; and when pruneTree returns from a
\* kept element every child it had is scored exactly once, whether or not
\* earlier siblings were removed.
C27_SinglePreOrderPass == [][PruneStepInOrder]_vars

\* an element with element children was detached by its score and its
\* children were never scored
C27_WitnessSubtreeSkipped ==
    \E j \in 1..Len(log) :
        /\ log[j].why = "score"
        /\ ElemKids(dom, log[j].node) # <<>>
        /\ \A d \in Below(dom, log[j].node) : ~Touched(d)

\* a later sibling of a removed child has been scored
C27_Witness ==
    /\ C27_WitnessSubtreeSkipped
    /\ \E f \in 1..Len(stack) :
          \E k, l \in 1..Len(stack[f].children) :
             /\ k < l
             /\ LoggedAt(stack[f].children[k]) # {}
             /\ ScoredAt(stack[f].children[l]) # {}

-----------------------------------------------------------------------------
(* Claims about the emptiness step of pruneTree *)

\* pruneTree has returned from n after visiting its children
LeftAfterChildren(n) ==
    /\ ScoredAt(n) # {}
    /\ ~RemovedByScore(n)
    /\ \A f \in 1..Len(stack) : stack[f].node # n

RemovedAsEmpty(n) == \E j \in 1..Len(log) : log[j].node = n /\ log[j].why = "empty"

\* the number of words of a text
WordCount(text) == WordRuns(text, 1)

\* zero child elements, empty trimmed text, fewer words than the minimum and
\* a tag that is not essential
EmptyAndInessential(nodes, n, minWordCount) ==
    /\ \A k \in 1..Len(nodes[n].kids) : nodes[nodes[n].kids[k]].kind # "elem"
    /\ Trim(TextContent(nodes, n)) = ""
    /\ WordCount(TextContent(nodes, n)) < minWordCount
    /\ nodes[n].tag \notin IncludedTags

\* C28: an element whose children have been processed is detached by the
\* emptiness step if and only if it then has no child element, empty trimmed
\* text, fewer words than the minimum word count and a tag that is not on
\* the essential allow-list; so an essential element is never detached by
\* this step and a non-essential parent emptied by the removal of its
\* children is detached as well.
C28_EmptinessStep ==
    \A n \in 1..Len(dom) :
        LeftAfterChildren(n) =>
            (RemovedAsEmpty(n) <=> EmptyAndInessential(dom, n, cfg.minWordCount))

-----------------------------------------------------------------------------
(* Claims about the plugin registry *)

\* the plugins registered after the first k calls, in the order in which they
\* were registered: a register that returned adds its plugin, an unregister
\* that returned takes the plugin of that name away, a clear leaves none, and
\* a call that threw changes nothing
RECURSIVE RegisteredAfter(_)
RegisteredAfter(k) ==
    IF k = 0 THEN <<>>
    ELSE IF history[k].kind # "returned" THEN RegisteredAfter(k - 1)
    ELSE IF history[k].fn = "register" THEN Append(RegisteredAfter(k - 1), history[k].args[1])
    ELSE IF history[k].fn = "unregister"
    THEN SelectSeq(RegisteredAfter(k - 1), LAMBDA q : q.name # history[k].args[1])
    ELSE IF history[k].fn = "clear" THEN <<>>
    ELSE RegisteredAfter(k - 1)

NamesOf(ps) == [i \in 1..Len(ps) |-> ps[i].name]

\* C29: after any sequence of register, unregister and clear calls, failed
\* ones included, initializationOrder holds exactly the names of the
\* registered plugins, each once, in registration order: a call that threw
\* has left the registry as it was and after clear it is empty.
C29_NamesMatchRegistered ==
    /\ initializationOrder = NamesOf(RegisteredAfter(Len(history)))
    /\ DOMAIN plugins = { initializationOrder[i] : i \in 1..Len(initializationOrder) }
    /\ \A i, j \in 1..Len(initializationOrder) :
          initializationOrder[i] = initializationOrder[j] => i = j
    /\ \A i \in 1..Len(initializationOrder) :
          plugins[initializationOrder[i]] = RegisteredAfter(Len(history))[i]

\* two plugins are registered and the last call, a register or an unregister,
\* threw
C29_Witness ==
    /\ Len(initializationOrder) = 2
    /\ pluginOut.kind = "threw"
    /\ pluginOut.error.name = "PluginError"

\* whether the transformation of the plugin called name yields a string for content
Succeeds(field, name, content) ==
    /\ plugins[name][field] # "none"
    /\ Transformed(plugins[name][field], name, content).kind = "string"

\* the running content after the first k plugins of initializationOrder
RECURSIVE RunningContent(_, _, _)
RunningContent(field, input, k) ==
    IF k = 0 THEN input
    ELSE IF Succeeds(field, initializationOrder[k], RunningContent(field, input, k - 1))
    THEN Transformed(plugins[initializationOrder[k]][field], initializationOrder[k],
                     RunningContent(field, input, k - 1)).value
    ELSE RunningContent(field, input, k - 1)

LastCall == history[Len(history)]

AppliedPlugins ==
    /\ history # <<>>
    /\ LastCall.fn \in {"applyFilterPlugins", "applyConvertPlugins"}

AppliedField == IF LastCall.fn = "applyFilterPlugins" THEN "filter" ELSE "convert"

\* C30: applyFilterPlugins and applyConvertPlugins return and never throw;
\* the result is the input passed through the plugins in registration
\* order, each receiving the output of the last plugin that returned a
\* string, a plugin that throws or returns a non-string leaving the content
\* as it was; with no plugin registered the result is the input.
C30_PluginsAppliedInOrder ==
    AppliedPlugins =>
        /\ LastCall.kind = "returned"
        /\ pluginOut.kind = "returned"
        /\ pluginOut.value = RunningContent(AppliedField, LastCall.args[1], Len(initializationOrder))
        /\ initializationOrder = <<>> => pluginOut.value = LastCall.args[1]

\* a plugin that failed is followed by one that transformed the content
C30_Witness ==
    /\ AppliedPlugins
    /\ Len(initializationOrder) = 2
    /\ plugins[initializationOrder[1]][AppliedField] \in {"throws", "number", "short"}
    /\ ~Succeeds(AppliedField, initializationOrder[1], LastCall.args[1])
    /\ pluginOut.value = LastCall.args[1] \o initializationOrder[2]

====
